---- MODULE Spec2Model ----
(***************************************************************************)
(* geoid-tool: the five geoid grid parsers (BYN, GGF, GFF, GSF, Javad BIN) *)
(* and the quadratic-surface interpolator BYN.compute_separation.          *)
(*                                                                         *)
(* Python values are modelled as follows.                                  *)
(*   - a float is an exact rational <<n, d>> in lowest terms with d > 0;   *)
(*   - an int is a TLA+ integer;                                           *)
(*   - an attribute that may hold None (or that does not exist yet) is a   *)
(*     sequence of length at most one: <<>> is None, <<v>> holds v;        *)
(*   - an element of a value list is a float <<n, d>> or None, <<>>.       *)
(* A binary buffer is a record of its decoded fields together with nbytes, *)
(* the number of bytes it holds; a text buffer is a sequence of one        *)
(* character strings.                                                      *)
(***************************************************************************)
EXTENDS Integers, Sequences, FiniteSets, TLC

VARIABLES obj, buf, ret, query, result, calls

vars == <<obj, buf, ret, query, result, calls>>

----------------------------------------------------------------------------
(* Bounds of the input sets.                                               *)

\* largest north/east boundary (arc-seconds) of a generated BYN header
MaxExtent == 3
\* largest number of body lines of a generated GSF text
MaxLines == 4
\* bytes removed from the end of a generated buffer: 0..MaxCut
MaxCut == 2
\* surplus samples appended after the rows*columns a header announces
MaxExtra == 1
\* compute_separation calls made one after the other on one grid
MaxCalls == 3

----------------------------------------------------------------------------
(* Python numbers.                                                         *)

None == <<>>

Some(v) == <<v>>

Abs(x) == IF x < 0 THEN -x ELSE x

RECURSIVE GCD(_, _)
GCD(a, b) == IF b = 0 THEN a ELSE GCD(b, a % b)

\* floor division, the result of Python 2's int / int
FloorDiv(a, b) ==
    IF b > 0 THEN a \div b ELSE (-a) \div (-b)

\* the float n/d, d # 0
Rat(n, d) ==
    LET g == GCD(Abs(n), Abs(d))
        s == IF d < 0 THEN -1 ELSE 1
    IN  <<(s * n) \div g, Abs(d) \div g>>

RInt(i) == <<i, 1>>

RAdd(a, b) == Rat(a[1] * b[2] + b[1] * a[2], a[2] * b[2])

RSub(a, b) == Rat(a[1] * b[2] - b[1] * a[2], a[2] * b[2])

RMul(a, b) == Rat(a[1] * b[1], a[2] * b[2])

\* a / b for b # 0; the callers raise ZeroDivisionError first
RDiv(a, b) == Rat(a[1] * b[2], a[2] * b[1])

RLess(a, b) == a[1] * b[2] < b[1] * a[2]

RIsZero(a) == a[1] = 0

\* math.floor
RFloor(a) == FloorDiv(a[1], a[2])

\* the marker the GFF, GSF and Javad parsers store for a missing sample
MISSING_MARKER == RInt(9999)

----------------------------------------------------------------------------
(* Text: str.strip, float(), int(), and the lines of a text file.          *)

Digits == <<"0", "1", "2", "3", "4", "5", "6", "7", "8", "9">>

IsDigit(c) == \E i \in 1..10 : Digits[i] = c

DigitVal(c) == (CHOOSE i \in 1..10 : Digits[i] = c) - 1

IsSpace(c) == c \in {" ", "\n"}

RECURSIVE LStrip(_)
LStrip(s) ==
    IF s # <<>> /\ IsSpace(Head(s)) THEN LStrip(Tail(s)) ELSE s

RECURSIVE RStrip(_)
RStrip(s) ==
    IF s # <<>> /\ IsSpace(s[Len(s)]) THEN RStrip(SubSeq(s, 1, Len(s) - 1)) ELSE s

Strip(s) == RStrip(LStrip(s))

AllDigits(s) == \A i \in 1..Len(s) : IsDigit(s[i])

RECURSIVE DigitsVal(_)
DigitsVal(s) ==
    IF s = <<>> THEN 0 ELSE 10 * DigitsVal(SubSeq(s, 1, Len(s) - 1)) + DigitVal(s[Len(s)])

RECURSIVE Pow10(_)
Pow10(k) == IF k = 0 THEN 1 ELSE 10 * Pow10(k - 1)

\* position of the first "." of s, or 0
DotPos(s) ==
    IF \E i \in 1..Len(s) : s[i] = "."
    THEN CHOOSE i \in 1..Len(s) : s[i] = "." /\ \A j \in 1..(i - 1) : s[j] # "."
    ELSE 0

\* float(s): the rational <<n, d>>, or None when Python raises ValueError.
\* Decimal literals only: [sign] digits [. digits], with at least one digit.
PyFloat(s) ==
    LET t == Strip(s)
        neg == t # <<>> /\ Head(t) = "-"
        u == IF neg THEN Tail(t) ELSE t
        p == DotPos(u)
        ip == IF p = 0 THEN u ELSE SubSeq(u, 1, p - 1)
        fp == IF p = 0 THEN <<>> ELSE SubSeq(u, p + 1, Len(u))
        ok == AllDigits(ip) /\ AllDigits(fp) /\ Len(ip) + Len(fp) > 0
        mag == DigitsVal(ip) * Pow10(Len(fp)) + DigitsVal(fp)
    IN  IF ok THEN Rat(IF neg THEN -mag ELSE mag, Pow10(Len(fp))) ELSE None

\* int(s): <<n>>, or None when Python raises ValueError
PyInt(s) ==
    LET t == Strip(s)
        neg == t # <<>> /\ Head(t) = "-"
        u == IF neg THEN Tail(t) ELSE t
        ok == AllDigits(u) /\ Len(u) > 0
    IN  IF ok THEN Some(IF neg THEN -DigitsVal(u) ELSE DigitsVal(u)) ELSE None

\* the lines of a text, each with its "\n" when it has one
RECURSIVE SplitLines(_)
SplitLines(text) ==
    IF text = <<>> THEN <<>>
    ELSE IF \E i \in 1..Len(text) : text[i] = "\n"
         THEN LET k == CHOOSE i \in 1..Len(text) :
                          text[i] = "\n" /\ \A j \in 1..(i - 1) : text[j] # "\n"
              IN  <<SubSeq(text, 1, k)>> \o SplitLines(SubSeq(text, k + 1, Len(text)))
         ELSE <<text>>

\* file.readline(): line i, or the empty string at end of file
ReadLine(lines, i) == IF i <= Len(lines) THEN lines[i] ELSE <<>>

----------------------------------------------------------------------------
(* Format D: GSF, a text file.                                             *)

GSF_init ==
    [cls |-> "GSF",
     min_lat |-> None, min_lon |-> None, max_lat |-> None, max_lon |-> None,
     columns |-> None, rows |-> None, undulations |-> <<>>,
     boundary_south |-> None, boundary_north |-> None,
     boundary_west |-> None, boundary_east |-> None,
     spacing_ns |-> None, spacing_ew |-> None]

\* one body line: the value appended, or None when float() raises ValueError
GSF_line(line) ==
    IF line # <<>> /\ Head(line) = "N" THEN MISSING_MARKER ELSE PyFloat(Strip(line))

\* the body loop: appends until a line raises
RECURSIVE GSF_body(_, _, _)
GSF_body(o, lines, i) ==
    IF i > Len(lines) THEN [obj |-> o, ret |-> "return"]
    ELSE LET v == GSF_line(lines[i])
         IN  IF v = None THEN [obj |-> o, ret |-> "ValueError"]
             ELSE GSF_body([o EXCEPT !.undulations = Append(@, v)], lines, i + 1)

\* the longitude kept as it is
GSF_wrap_none(lon) == lon

\* longitude normalisation of the boundary fields
GSF_wrap(lon) == IF RLess(lon, RInt(0)) THEN RSub(RInt(360), <<Abs(lon[1]), lon[2]>>) ELSE lon

\* GSF_geometry with the two latitudes exchanged
GSF_geometry_swapped(o) ==
    [o EXCEPT !.boundary_south = o.max_lat,
              !.boundary_north = o.min_lat,
              !.boundary_west = Some(GSF_wrap(o.min_lon[1])),
              !.boundary_east = Some(GSF_wrap(o.max_lon[1]))]

GSF_geometry(o) ==
    [o EXCEPT !.boundary_south = o.min_lat,
              !.boundary_north = o.max_lat,
              !.boundary_west = Some(GSF_wrap(o.min_lon[1])),
              !.boundary_east = Some(GSF_wrap(o.max_lon[1]))]

GSF_load_gsf(o, text) ==
    LET lines == SplitLines(text)
        f1 == PyFloat(ReadLine(lines, 1))
        f2 == PyFloat(ReadLine(lines, 2))
        f3 == PyFloat(ReadLine(lines, 3))
        f4 == PyFloat(ReadLine(lines, 4))
        i5 == PyInt(ReadLine(lines, 5))
        i6 == PyInt(ReadLine(lines, 6))
        o1 == [o EXCEPT !.min_lat = Some(f1)]
        o2 == [o1 EXCEPT !.min_lon = Some(f2)]
        o3 == [o2 EXCEPT !.max_lat = Some(f3)]
        o4 == [o3 EXCEPT !.max_lon = Some(f4)]
        o5 == [o4 EXCEPT !.columns = Some(i5[1] + 1)]
        o6 == [o5 EXCEPT !.rows = Some(i6[1] + 1)]
        o7 == GSF_geometry(o6)
        o8 == [o7 EXCEPT !.spacing_ns = Some(RDiv(RSub(f3, f1), RInt(o6.rows[1])))]
        o9 == [o8 EXCEPT !.spacing_ew = Some(RDiv(RSub(f4, f2), RInt(o6.columns[1])))]
    IN  IF f1 = None THEN [obj |-> o, ret |-> "ValueError"]
        ELSE IF f2 = None THEN [obj |-> o1, ret |-> "ValueError"]
        ELSE IF f3 = None THEN [obj |-> o2, ret |-> "ValueError"]
        ELSE IF f4 = None THEN [obj |-> o3, ret |-> "ValueError"]
        ELSE IF i5 = None THEN [obj |-> o4, ret |-> "ValueError"]
        ELSE IF i6 = None THEN [obj |-> o5, ret |-> "ValueError"]
        ELSE IF o6.rows[1] = 0 THEN [obj |-> o7, ret |-> "ZeroDivisionError"]
        ELSE IF o6.columns[1] = 0 THEN [obj |-> o8, ret |-> "ZeroDivisionError"]
        ELSE GSF_body(o9, lines, 7)

----------------------------------------------------------------------------
(* Format A: BYN.  A buffer is [south, north, west, east, spacing_ns,      *)
(* spacing_ew, data_type, factor, data_size, byte_order, body, nbytes]:    *)
(* the header fields, the 32-bit samples that follow the header, and the   *)
(* number of bytes of the file (at most BYN_HEADER + 4 * Len(body)).       *)

\* bytes of the four header reads that are unpacked, and of the whole header
BYN_READ1 == 20
BYN_READ2 == 24
BYN_READ3 == 36
BYN_READ4 == 52
BYN_HEADER == 80
\* bytes of one item of array.array('l')
BYN_ITEM == 4

\* BYN has no __init__: no attribute exists before load_byn assigns it
BYN_init ==
    [cls |-> "BYN",
     boundary_south |-> None, boundary_north |-> None,
     boundary_west |-> None, boundary_east |-> None,
     spacing_ns |-> None, spacing_ew |-> None,
     data_type |-> None, factor |-> None, data_size |-> None, byte_order |-> None,
     columns |-> None, rows |-> None, geoid_values |-> None]

\* the complete items a file of nbytes bytes holds after the header
BYN_items(b) ==
    IF b.nbytes < BYN_HEADER THEN 0 ELSE (b.nbytes - BYN_HEADER) \div BYN_ITEM

\* value / self.factor for each value
BYN_scale(body, factor) == [i \in 1..Len(body) |-> RDiv(RInt(body[i]), factor)]

BYN_load_byn(o, b) ==
    LET o1 == [o EXCEPT !.boundary_south = Some(b.south),
                        !.boundary_north = Some(b.north),
                        !.boundary_west = Some(b.west),
                        !.boundary_east = Some(b.east),
                        !.spacing_ns = Some(b.spacing_ns),
                        !.spacing_ew = Some(b.spacing_ew)]
        o2 == [o1 EXCEPT !.data_type = Some(b.data_type)]
        o3 == [o2 EXCEPT !.factor = Some(b.factor), !.data_size = Some(b.data_size)]
        o4 == [o3 EXCEPT !.byte_order = Some(b.byte_order)]
        cols == FloorDiv(b.east - b.west, b.spacing_ew) + 1
        o5 == [o4 EXCEPT !.columns = Some(cols)]
        rws == FloorDiv(b.north - b.south, b.spacing_ns) + 1
        o6 == [o5 EXCEPT !.rows = Some(rws)]
        n == cols * rws
        int_values == SubSeq(b.body, 1, n)
        o7 == [o6 EXCEPT !.geoid_values = Some(<<>>)]
        o8 == [o6 EXCEPT !.geoid_values = Some(BYN_scale(int_values, b.factor))]
    IN  IF b.nbytes < BYN_READ1 THEN [obj |-> o, ret |-> "struct.error"]
        ELSE IF b.nbytes < BYN_READ2 THEN [obj |-> o1, ret |-> "struct.error"]
        ELSE IF b.nbytes < BYN_READ3 THEN [obj |-> o2, ret |-> "struct.error"]
        ELSE IF b.nbytes < BYN_READ4 THEN [obj |-> o3, ret |-> "struct.error"]
        ELSE IF b.spacing_ew = 0 THEN [obj |-> o4, ret |-> "ZeroDivisionError"]
        ELSE IF b.spacing_ns = 0 THEN [obj |-> o5, ret |-> "ZeroDivisionError"]
        ELSE IF n > 0 /\ BYN_items(b) < n THEN [obj |-> o6, ret |-> "EOFError"]
        ELSE IF n > 0 /\ RIsZero(b.factor) THEN [obj |-> o7, ret |-> "ZeroDivisionError"]
        ELSE [obj |-> o8, ret |-> "return"]

----------------------------------------------------------------------------
(* The interpolator: BYN.__extract_value, __multiply, compute_separation.  *)

\* sequence indexing with Python's negative indices: <<v>>, or None on IndexError
PyIndex(s, i) ==
    IF 0 <= i /\ i < Len(s) THEN Some(s[i + 1])
    ELSE IF -Len(s) <= i /\ i < 0 THEN Some(s[Len(s) + i + 1])
    ELSE None

\* the extraction with cell_y counted from the north, as the rows lie on disk
BYN_extract_value_unflipped(o, cell_x, cell_y) ==
    IF (cell_x < 0) \/ (cell_x > o.columns[1]) \/ (cell_y < 0) \/ (cell_y > o.rows[1])
    THEN Some(RInt(0))
    ELSE PyIndex(o.geoid_values[1], cell_y * o.columns[1] + cell_x)

\* <<value>>, or None when the indexing raises IndexError
BYN_extract_value(o, cell_x, cell_y) ==
    IF (cell_x < 0) \/ (cell_x > o.columns[1]) \/ (cell_y < 0) \/ (cell_y > o.rows[1])
    THEN Some(RInt(0))
    ELSE LET y == o.rows[1] - cell_y - 1
             offset == y * o.columns[1] + cell_x
         IN  PyIndex(o.geoid_values[1], offset)

RECURSIVE BYN_dot(_, _, _, _)
\* matrix[row][col] accumulated over sum = k..n, starting from acc
BYN_dot(lrow, rcol, k, acc) ==
    IF k > Len(lrow) THEN acc
    ELSE BYN_dot(lrow, rcol, k + 1, RAdd(acc, RMul(lrow[k], rcol[k])))

\* the product of two matrices (sequences of rows); the dimensions agree at
\* both call sites, so the "Cannot be multiplied." exception never fires
BYN_multiply(left, right) ==
    [row \in 1..Len(left) |->
        [col \in 1..Len(right[1]) |->
            BYN_dot(left[row], [k \in 1..Len(right) |-> right[k][col]], 1, RInt(0))]]

Q(n) == Rat(n, 4)

\* Ai with the centre coefficient of its first row halved
Ai_centre_halved ==
    << <<Q(1), Q(-2), Q(1), Q(-2), Q(2), Q(-2), Q(1), Q(-2), Q(1)>>,
       <<Q(1), Q(-2), Q(1), Q(0), Q(0), Q(0), Q(-1), Q(2), Q(-1)>>,
       <<Q(-1), Q(0), Q(1), Q(2), Q(0), Q(-2), Q(-1), Q(0), Q(1)>>,
       <<Q(0), Q(0), Q(0), Q(2), Q(-4), Q(2), Q(0), Q(0), Q(0)>>,
       <<Q(0), Q(2), Q(0), Q(0), Q(-4), Q(0), Q(0), Q(2), Q(0)>>,
       <<Q(-1), Q(0), Q(1), Q(0), Q(0), Q(0), Q(1), Q(0), Q(-1)>>,
       <<Q(0), Q(0), Q(0), Q(-2), Q(0), Q(2), Q(0), Q(0), Q(0)>>,
       <<Q(0), Q(2), Q(0), Q(0), Q(0), Q(0), Q(0), Q(-2), Q(0)>>,
       <<Q(0), Q(0), Q(0), Q(0), Q(4), Q(0), Q(0), Q(0), Q(0)>> >>

Ai ==
    << <<Q(1), Q(-2), Q(1), Q(-2), Q(4), Q(-2), Q(1), Q(-2), Q(1)>>,
       <<Q(1), Q(-2), Q(1), Q(0), Q(0), Q(0), Q(-1), Q(2), Q(-1)>>,
       <<Q(-1), Q(0), Q(1), Q(2), Q(0), Q(-2), Q(-1), Q(0), Q(1)>>,
       <<Q(0), Q(0), Q(0), Q(2), Q(-4), Q(2), Q(0), Q(0), Q(0)>>,
       <<Q(0), Q(2), Q(0), Q(0), Q(-4), Q(0), Q(0), Q(2), Q(0)>>,
       <<Q(-1), Q(0), Q(1), Q(0), Q(0), Q(0), Q(1), Q(0), Q(-1)>>,
       <<Q(0), Q(0), Q(0), Q(-2), Q(0), Q(2), Q(0), Q(0), Q(0)>>,
       <<Q(0), Q(2), Q(0), Q(0), Q(0), Q(0), Q(0), Q(-2), Q(0)>>,
       <<Q(0), Q(0), Q(0), Q(0), Q(4), Q(0), Q(0), Q(0), Q(0)>> >>

\* the cell of the point with its coordinates taken as arc-seconds
BYN_cell_unconverted(o, longitude, latitude) ==
    <<RFloor(RDiv(RSub(longitude, RInt(o.boundary_west[1])), RInt(o.spacing_ew[1]))),
      RFloor(RDiv(RSub(latitude, RInt(o.boundary_south[1])), RInt(o.spacing_ns[1])))>>

\* the cell the point falls into: <<grid_x5, grid_y5>>
BYN_cell(o, longitude, latitude) ==
    LET point_x == RSub(RMul(longitude, RInt(3600)), RInt(o.boundary_west[1]))
        point_y == RSub(RMul(latitude, RInt(3600)), RInt(o.boundary_south[1]))
    IN  <<RFloor(RDiv(point_x, RInt(o.spacing_ew[1]))),
          RFloor(RDiv(point_y, RInt(o.spacing_ns[1])))>>

\* the point in grid coordinates relative to the cell: <<x1, y1>>
BYN_frac(o, longitude, latitude) ==
    LET point_x == RSub(RMul(longitude, RInt(3600)), RInt(o.boundary_west[1]))
        point_y == RSub(RMul(latitude, RInt(3600)), RInt(o.boundary_south[1]))
        g == BYN_cell(o, longitude, latitude)
    IN  <<RSub(RDiv(point_x, RInt(o.spacing_ew[1])), RInt(g[1])),
          RSub(RDiv(point_y, RInt(o.spacing_ns[1])), RInt(g[2]))>>

\* the nine cells of the neighbourhood, in the order of L
BYN_neighbourhood(g) ==
    << <<g[1] - 1, g[2] + 1>>, <<g[1], g[2] + 1>>, <<g[1] + 1, g[2] + 1>>,
       <<g[1] - 1, g[2]>>, <<g[1], g[2]>>, <<g[1] + 1, g[2]>>,
       <<g[1] - 1, g[2] - 1>>, <<g[1], g[2] - 1>>, <<g[1] + 1, g[2] - 1>> >>

\* the value interpolated from the extracted neighbourhood L
BYN_interpolate(o, L, longitude, latitude) ==
    LET X == BYN_multiply(Ai, L)
        f == BYN_frac(o, longitude, latitude)
        x1 == f[1]
        y1 == f[2]
        x2 == RMul(x1, x1)
        y2 == RMul(y1, y1)
        A == << <<RMul(x2, y2), RMul(x2, y1), RMul(x1, y2), x2, y2,
                  RMul(x1, y1), x1, y1, RInt(1)>> >>
    IN  BYN_multiply(A, X)[1][1]

\* [ret, value]: the value returned, or the exception raised
BYN_compute_separation(o, longitude, latitude) ==
    LET g == BYN_cell(o, longitude, latitude)
        cells == BYN_neighbourhood(g)
        ex == [i \in 1..9 |-> BYN_extract_value(o, cells[i][1], cells[i][2])]
        L == [i \in 1..9 |-> <<ex[i][1]>>]
    IN  IF \E i \in 1..9 : ex[i] = None
        THEN [ret |-> "IndexError", value |-> None]
        ELSE [ret |-> "return", value |-> Some(BYN_interpolate(o, L, longitude, latitude))]

\* the call with the centre cell extracted in place of the next neighbour
BYN_extract_centre(o, c) ==
    LET v == BYN_extract_value(o, c.g[1], c.g[2])
    IN  IF v = None
        THEN [c EXCEPT !.result = Some([ret |-> "IndexError", value |-> None])]
        ELSE [c EXCEPT !.L = Append(@, <<v[1]>>)]

\* the call c after the next of its nine extractions: the row appended to
\* its list L, or the IndexError of geoid_values[offset] leaving the call
BYN_extract_next(o, c) ==
    LET cell == BYN_neighbourhood(c.g)[Len(c.L) + 1]
        v == BYN_extract_value(o, cell[1], cell[2])
    IN  IF v = None
        THEN [c EXCEPT !.result = Some([ret |-> "IndexError", value |-> None])]
        ELSE [c EXCEPT !.L = Append(@, <<v[1]>>)]

\* self with the western boundary moved by one arc-second at each call
BYN_self_shifted(o, longitude, latitude) ==
    [o EXCEPT !.boundary_west = Some(@[1] + 1)]

\* self after a call: compute_separation, __extract_value and __multiply
\* assign to local names only, no attribute of self is written
BYN_self_after_compute(o, longitude, latitude) == o

----------------------------------------------------------------------------
(* Format E: Javad BIN.  A buffer is a record of the header fields (the    *)
(* names of JAV_FIELDS), body (the samples after the header) and nbytes.   *)

\* 180 / pi with pi taken as 355/113
R2D == Rat(180 * 113, 355)

BinaryGeoid_init ==
    [cls |-> "BinaryGeoid",
     header |-> None, minx |-> None, maxy |-> None, maxx |-> None, miny |-> None,
     dx |-> None, dy |-> None, ncol |-> None, nrow |-> None,
     ncol2 |-> None, nrow2 |-> None, type_ |-> None, interp |-> None,
     zscale |-> None, zmin |-> None, nvals |-> None,
     boundary_south |-> None, boundary_north |-> None,
     boundary_west |-> None, boundary_east |-> None,
     spacing_ns |-> None, spacing_ew |-> None,
     columns |-> None, rows |-> None, geoid_values |-> <<>>]

\* the header reads in file order: the attribute assigned ("_" for a value
\* that is dropped) and the offset of the byte after the field
JAV_FIELDS ==
    << <<"header", 8>>, <<"_", 9>>, <<"_", 66>>,
       <<"minx", 74>>, <<"maxy", 82>>, <<"maxx", 90>>, <<"miny", 98>>,
       <<"dx", 106>>, <<"dy", 114>>,
       <<"ncol", 118>>, <<"nrow", 122>>, <<"_", 126>>, <<"_", 130>>,
       <<"ncol2", 134>>, <<"nrow2", 138>>, <<"type_", 142>>, <<"_", 146>>,
       <<"interp", 150>>, <<"_", 154>>, <<"_", 158>>,
       <<"zscale", 166>>, <<"zmin", 174>>, <<"nvals", 178>> >>

JAV_HEADER == 178

\* bytes of one sample of the given type
JAV_size(type_) == IF type_ = 3 THEN 2 ELSE 4

RECURSIVE JAV_read_header(_, _, _)
JAV_read_header(o, b, i) ==
    IF i > Len(JAV_FIELDS) THEN [obj |-> o, ret |-> "return"]
    ELSE IF JAV_FIELDS[i][2] > b.nbytes THEN [obj |-> o, ret |-> "struct.error"]
    ELSE IF JAV_FIELDS[i][1] = "_" THEN JAV_read_header(o, b, i + 1)
    ELSE JAV_read_header([o EXCEPT ![JAV_FIELDS[i][1]] = Some(b[JAV_FIELDS[i][1]])], b, i + 1)

\* JAV_value without the offset of 1 in the 16-bit type
JAV_value_no_offset(o, val) ==
    IF o.type_[1] = 3
    THEN IF val = 0 \/ val = 1 THEN MISSING_MARKER
         ELSE RAdd(o.zmin[1], RDiv(RInt(val), o.zscale[1]))
    ELSE IF o.type_[1] = 4 THEN RAdd(o.zmin[1], RDiv(RInt(val), o.zscale[1]))
    ELSE RAdd(o.zmin[1], RInt(val))

\* the value appended for one sample of a supported type
JAV_value(o, val) ==
    IF o.type_[1] = 3
    THEN IF val = 0 \/ val = 1 THEN MISSING_MARKER
         ELSE RAdd(o.zmin[1], RDiv(RInt(val - 1), o.zscale[1]))
    ELSE IF o.type_[1] = 4 THEN RAdd(o.zmin[1], RDiv(RInt(val), o.zscale[1]))
    ELSE RAdd(o.zmin[1], RInt(val))

\* whether decoding sample val divides by a zero zscale
JAV_divides_by_zero(o, val) ==
    /\ RIsZero(o.zscale[1])
    /\ \/ o.type_[1] = 3 /\ val # 0 /\ val # 1
       \/ o.type_[1] = 4

RECURSIVE JAV_body(_, _, _)
\* iteration i (from 0) of the loop over range(nrow * ncol)
JAV_body(o, b, i) ==
    IF i >= o.nrow[1] * o.ncol[1] THEN [obj |-> o, ret |-> "return"]
    ELSE IF o.type_[1] \notin {3, 4, 5} THEN JAV_body(o, b, o.nrow[1] * o.ncol[1])
    ELSE IF JAV_HEADER + (i + 1) * JAV_size(o.type_[1]) > b.nbytes
         THEN [obj |-> o, ret |-> "struct.error"]
    ELSE IF JAV_divides_by_zero(o, b.body[i + 1])
         THEN [obj |-> o, ret |-> "ZeroDivisionError"]
    ELSE JAV_body([o EXCEPT !.geoid_values = Append(@, JAV_value(o, b.body[i + 1]))],
                  b, i + 1)

JAV_geometry(o) ==
    [o EXCEPT !.boundary_south = Some(RMul(o.miny[1], R2D)),
              !.boundary_north = Some(RMul(o.maxy[1], R2D)),
              !.boundary_west = Some(RMul(o.minx[1], R2D)),
              !.boundary_east = Some(RMul(o.maxx[1], R2D)),
              !.spacing_ns = o.dy,
              !.spacing_ew = o.dx,
              !.columns = o.ncol,
              !.rows = o.nrow]

\* "len > 0xa2" compares the builtin len with an int, which Python 2 orders
\* by type name: the guard is always true
BinaryGeoid_load_geoid(o, b) ==
    LET h == JAV_read_header(o, b, 1)
    IN  IF h.ret # "return" THEN h ELSE JAV_body(JAV_geometry(h.obj), b, 0)

----------------------------------------------------------------------------
(* Format C: GFF.  A buffer is [hasRegion, hasNY, hasNX, hasData, region,  *)
(* ny, nx, body, nbytes]: which tags occur, the six doubles after vRegion, *)
(* the counts after vNY and vNX, the floats after vData, and the number of *)
(* bytes of the file.  The blocks lie in this order, vData last.           *)

\* bytes of the blocks: tag, skip and value(s)
GFF_REGION_BLOCK == 68
GFF_COUNT_BLOCK == 20
GFF_DATA_SKIP == 22
GFF_SAMPLE == 4

GFF_init ==
    [cls |-> "GFF",
     minLat |-> None, minLon |-> None, maxLat |-> None, maxLon |-> None,
     latStep |-> None, lonStep |-> None, dLat |-> None, dLon |-> None,
     ncols |-> None, nrows |-> None,
     boundary_south |-> None, boundary_north |-> None,
     boundary_west |-> None, boundary_east |-> None,
     spacing_ns |-> None, spacing_ew |-> None,
     columns |-> None, rows |-> None, geoid_values |-> <<>>]

\* offsets of the byte after each block
GFF_end_region(b) == IF b.hasRegion THEN GFF_REGION_BLOCK ELSE 0
GFF_end_ny(b) == GFF_end_region(b) + (IF b.hasNY THEN GFF_COUNT_BLOCK ELSE 0)
GFF_end_nx(b) == GFF_end_ny(b) + (IF b.hasNX THEN GFF_COUNT_BLOCK ELSE 0)
GFF_data_start(b) == GFF_end_nx(b) + GFF_DATA_SKIP

\* val == 0.0010000000475: val is a 32-bit float widened to a double, and the
\* literal is a double that no 32-bit float equals
GFF_is_literal_001(val) == FALSE

GFF_is_missing(val) ==
    \/ RIsZero(val)
    \/ val = RInt(999999)
    \/ RLess(val, RInt(0))
    \/ val = RInt(1)
    \/ GFF_is_literal_001(val)

GFF_value(val) == IF GFF_is_missing(val) THEN MISSING_MARKER ELSE val

RECURSIVE GFF_body(_, _, _)
\* iteration i (from 0) of the loop over the samples; without a vRegion block
\* minLon and dLon are None and the coordinate of the sample raises
GFF_body(o, b, i) ==
    IF i >= o.nrows[1] * o.ncols[1] THEN [obj |-> o, ret |-> "return"]
    ELSE IF GFF_data_start(b) + (i + 1) * GFF_SAMPLE > b.nbytes
         THEN [obj |-> o, ret |-> "struct.error"]
    ELSE IF o.minLon = None THEN [obj |-> o, ret |-> "TypeError"]
    ELSE GFF_body([o EXCEPT !.geoid_values = Append(@, GFF_value(b.body[i + 1]))], b, i + 1)

GFF_region(o, b) ==
    LET v == [i \in 1..6 |-> RMul(b.region[i], R2D)]
    IN  [o EXCEPT !.minLat = Some(v[1]), !.latStep = Some(v[2]),
                  !.minLon = Some(v[3]), !.lonStep = Some(v[4]),
                  !.dLat = Some(v[5]), !.dLon = Some(v[6]),
                  !.maxLat = Some(RAdd(v[1], v[2])),
                  !.maxLon = Some(RAdd(v[3], v[4]))]

GFF_geometry(o) ==
    [o EXCEPT !.boundary_south = o.minLat, !.boundary_north = o.maxLat,
              !.boundary_west = o.minLon, !.boundary_east = o.maxLon,
              !.spacing_ns = o.dLat, !.spacing_ew = o.dLon,
              !.columns = o.ncols, !.rows = o.nrows]

GFF_load_gff(o, b) ==
    LET o1 == IF b.hasRegion THEN GFF_region(o, b) ELSE o
        o2 == IF b.hasNY THEN [o1 EXCEPT !.ncols = Some(b.ny)] ELSE o1
        o3 == IF b.hasNX THEN [o2 EXCEPT !.nrows = Some(b.nx)] ELSE o2
        o4 == GFF_geometry(o3)
    IN  IF b.hasRegion /\ b.nbytes < GFF_end_region(b)
        THEN [obj |-> o, ret |-> "struct.error"]
        ELSE IF b.hasNY /\ b.nbytes < GFF_end_ny(b)
        THEN [obj |-> o1, ret |-> "struct.error"]
        ELSE IF b.hasNX /\ b.nbytes < GFF_end_nx(b)
        THEN [obj |-> o2, ret |-> "struct.error"]
        ELSE IF ~b.hasData THEN [obj |-> o4, ret |-> "return"]
        ELSE IF o4.nrows = None \/ o4.ncols = None
        THEN [obj |-> o4, ret |-> "TypeError"]
        ELSE GFF_body(o4, b, 0)

----------------------------------------------------------------------------
(* Format B: GGF.  A buffer is [sig, version, ascii, LatMin, LatMax,       *)
(* LongMin, LongMax, LatInterval, LongInterval, LatGridSize, LongGridSize, *)
(* GridMissing, GridScalar, flags, body, nbytes]: sig tells whether bytes  *)
(* 2..15 hold the signature, ascii whether the name bytes are ASCII, flags *)
(* are the bytes 138..145, body the 4-byte samples after the header.       *)

GRID_HEADER_LENGTH == 146
GGF_SAMPLE == 4
GGF_FOOTER == 16

\* the tolerance 0.0001 of the grid-size checks
GGF_TOLERANCE == Rat(1, 10000)

RECURSIVE Pow2(_)
Pow2(k) == IF k = 0 THEN 1 ELSE 2 * Pow2(k - 1)

bitSet(b, bit) == (b \div Pow2(bit)) % 2 # 0

\* the entries of self._flags the parser reads back or defaults
GGF_flags0(fb) ==
    [GIF_GRID_SCALED |-> bitSet(fb[1], 1), GIF_UNITS_METERS |-> bitSet(fb[2], 2)]

GGF_flags3(fb, f) ==
    [GIF_GRID_SCALED |-> f.GIF_GRID_SCALED, GIF_UNITS_METERS |-> f.GIF_UNITS_METERS,
     GIF_FORMAT_LONG |-> bitSet(fb[4], 2), GIF_FORMAT_FLOAT |-> bitSet(fb[4], 3)]

GGF_flags4(fb, f) ==
    [GIF_GRID_SCALED |-> f.GIF_GRID_SCALED, GIF_UNITS_METERS |-> f.GIF_UNITS_METERS,
     GIF_FORMAT_LONG |-> f.GIF_FORMAT_LONG, GIF_FORMAT_FLOAT |-> f.GIF_FORMAT_FLOAT,
     GIF_LAT_ASCENDING |-> bitSet(fb[5], 0)]

GGF_flags5(fb, f) ==
    [GIF_GRID_SCALED |-> f.GIF_GRID_SCALED, GIF_UNITS_METERS |-> f.GIF_UNITS_METERS,
     GIF_FORMAT_LONG |-> f.GIF_FORMAT_LONG, GIF_FORMAT_FLOAT |-> f.GIF_FORMAT_FLOAT,
     GIF_LAT_ASCENDING |-> f.GIF_LAT_ASCENDING,
     GIF_LON_ASCENDING |-> bitSet(fb[6], 0)]

\* the strict test with a zero byte never an error
GGF_strict_never(byte, strict) == FALSE

\* if flags_bytes[i] == 0: if strict: return an error, else: set the default
GGF_strict_fails(byte, strict) == byte = 0 /\ strict

\* [flags, errorNumber]: self._flags as parseFlags leaves it and the error
\* number it returns (0 with valid = True)
GGF_parseFlags(fb, strict) ==
    LET f0 == GGF_flags0(fb)
        f1 == IF fb[2] = 0 THEN [f0 EXCEPT !.GIF_UNITS_METERS = TRUE] ELSE f0
        f3 == GGF_flags3(fb, f1)
        f4a == GGF_flags4(fb, f3)
        f4 == IF fb[5] = 0 THEN [f4a EXCEPT !.GIF_LAT_ASCENDING = TRUE] ELSE f4a
        f5a == GGF_flags5(fb, f4)
        f5 == IF fb[6] = 0 THEN [f5a EXCEPT !.GIF_LON_ASCENDING = TRUE] ELSE f5a
    IN  IF GGF_strict_fails(fb[2], strict) THEN [flags |-> f0, errorNumber |-> 101]
        ELSE IF fb[3] = 0 THEN [flags |-> f1, errorNumber |-> 102]
        ELSE IF fb[4] = 0 THEN [flags |-> f1, errorNumber |-> 103]
        ELSE IF ~(f3.GIF_FORMAT_FLOAT \/ f3.GIF_FORMAT_LONG)
             THEN [flags |-> f3, errorNumber |-> 202]
        ELSE IF GGF_strict_fails(fb[5], strict) THEN [flags |-> f4a, errorNumber |-> 104]
        ELSE IF GGF_strict_fails(fb[6], strict) THEN [flags |-> f5a, errorNumber |-> 105]
        ELSE [flags |-> f5, errorNumber |-> 0]

\* one sample of a row: scaled when isScaled, then compared with the
\* header's missing value
GGF_sample(raw, isScaled, scalar, missing) ==
    LET x == IF isScaled THEN RDiv(RInt(raw), scalar) ELSE RInt(raw)
    IN  IF x = missing THEN None ELSE x

\* self._grid: the rows of LongGridSize samples, LatGridSize of them
GGF_parseGrid(o, b, isFloat, isScaled, scalar) ==
    [i \in 1..(o._LatGridSize[1] * o._LongGridSize[1]) |->
        GGF_sample(b.body[i], isScaled, scalar, o._GridMissing[1])]

GGF_new ==
    [cls |-> "GGF", _version |-> None, _Name |-> None,
     _LatMin |-> None, _LatMax |-> None, _LongMin |-> None, _LongMax |-> None,
     _LatInterval |-> None, _LongInterval |-> None,
     _LatGridSize |-> None, _LongGridSize |-> None,
     _GridMissing |-> None, _GridScalar |-> None,
     _flags |-> None, _grid |-> None,
     _valid |-> None, _errorNumber |-> None]

\* the object with what validateAndParse returns stored by __init__
GGF_result(o, errorNumber) ==
    [obj |-> [o EXCEPT !._valid = Some(errorNumber = 0), !._errorNumber = Some(errorNumber)],
     ret |-> "return"]

\* an exception leaves __init__: the caller is given no object
GGF_raise(exception) == [obj |-> [cls |-> "none"], ret |-> exception]

GGF_expected_size(o, version) ==
    o._LatGridSize[1] * o._LongGridSize[1] * GGF_SAMPLE + GRID_HEADER_LENGTH
        + (IF version = 1 THEN GGF_FOOTER ELSE 0)

GGF_lat_inconsistent(o) ==
    LET d == RSub(RAdd(o._LatMin[1],
                       RMul(RInt(o._LatGridSize[1] - 1), o._LatInterval[1])),
                  o._LatMax[1])
    IN  RLess(GGF_TOLERANCE, <<Abs(d[1]), d[2]>>)

GGF_long_inconsistent(o) ==
    LET d == RSub(RAdd(o._LongMin[1],
                       RMul(RInt(o._LongGridSize[1] - 1), o._LongInterval[1])),
                  o._LongMax[1])
    IN  RLess(GGF_TOLERANCE, <<Abs(d[1]), d[2]>>)

\* the version test with 2 let through
GGF_version_above_two(version) == version > 2

\* only versions 0 and 1 are supported
GGF_version_unsupported(version) == version > 1

\* GGF.__init__ with the file read: validateAndParse and the three results
GGF_validateAndParse(b, strict) ==
    LET o0 == GGF_new
        o1 == [o0 EXCEPT !._version = Some(b.version)]
        o2 == [o1 EXCEPT !._Name = Some("name"),
                         !._LatMin = Some(b.LatMin), !._LatMax = Some(b.LatMax),
                         !._LongMin = Some(b.LongMin), !._LongMax = Some(b.LongMax),
                         !._LatInterval = Some(b.LatInterval),
                         !._LongInterval = Some(b.LongInterval),
                         !._LatGridSize = Some(b.LatGridSize),
                         !._LongGridSize = Some(b.LongGridSize)]
        o3 == [o2 EXCEPT !._GridMissing = Some(b.GridMissing),
                         !._GridScalar = Some(b.GridScalar)]
        pf == GGF_parseFlags(b.flags, strict)
        o4 == [o3 EXCEPT !._flags = Some(pf.flags)]
        isScaled == pf.flags.GIF_GRID_SCALED
        o5 == [o4 EXCEPT !._grid =
                  Some(GGF_parseGrid(o4, b, pf.flags.GIF_FORMAT_FLOAT, isScaled, b.GridScalar))]
    IN  IF b.nbytes < GRID_HEADER_LENGTH THEN GGF_result(o0, 1)
        ELSE IF ~b.sig THEN GGF_result(o0, 2)
        ELSE IF GGF_version_unsupported(b.version) THEN GGF_result(o0, 3)
        ELSE IF ~b.ascii THEN GGF_raise("UnicodeDecodeError")
        ELSE IF GGF_lat_inconsistent(o2) THEN GGF_result(o2, 4)
        ELSE IF GGF_long_inconsistent(o2) THEN GGF_result(o2, 5)
        ELSE IF pf.errorNumber # 0 THEN GGF_result(o4, pf.errorNumber)
        ELSE IF b.nbytes # GGF_expected_size(o4, b.version) THEN GGF_result(o4, 6)
        ELSE IF isScaled /\ RIsZero(b.GridScalar)
                /\ b.LatGridSize * b.LongGridSize > 0
             THEN GGF_raise("ZeroDivisionError")
        ELSE GGF_result(o5, 0)

----------------------------------------------------------------------------
(* The inputs: the buffers the parsers are given and the query points.     *)

\* the first n samples of the endless repetition of pattern
Cyclic(pattern, n) == [i \in 1..n |-> pattern[((i - 1) % Len(pattern)) + 1]]

Max0(n) == IF n < 0 THEN 0 ELSE n

BYN_header_set ==
    [south : {0}, north : 1..MaxExtent, west : {0}, east : 1..MaxExtent,
     spacing_ns : {0, 1, 2}, spacing_ew : {0, 1, 2},
     data_type : {1}, factor : {RInt(0), RInt(2)}, data_size : {4}, byte_order : {1}]

\* the samples the header h announces, 0 when a spacing is 0
BYN_count(h) ==
    IF h.spacing_ns = 0 \/ h.spacing_ew = 0 THEN 0
    ELSE Max0((FloorDiv(h.east - h.west, h.spacing_ew) + 1)
              * (FloorDiv(h.north - h.south, h.spacing_ns) + 1))

BYN_pattern_set == {<<6>>, <<2, 4, 6, 8, 10, 12, 14>>}

BYN_make(h, body, nbytes) ==
    [south |-> h.south, north |-> h.north, west |-> h.west, east |-> h.east,
     spacing_ns |-> h.spacing_ns, spacing_ew |-> h.spacing_ew,
     data_type |-> h.data_type, factor |-> h.factor, data_size |-> h.data_size,
     byte_order |-> h.byte_order, body |-> body, nbytes |-> nbytes]

\* the headers of a grid of one cell spacing in both directions
BYN_unit_header_set ==
    {h \in BYN_header_set : h.north = 1 /\ h.east = 1
                            /\ h.spacing_ns = 1 /\ h.spacing_ew = 1}

\* unit headers that announce another data type, data size or byte order
\* than geoid model, 4 bytes, PC
BYN_foreign_header_set ==
    {[h EXCEPT !.data_type = t, !.data_size = z, !.byte_order = o] :
        h \in BYN_unit_header_set, t \in {1, 2}, z \in {4, 2}, o \in {1, 0}}

\* whole files of every header; files with surplus samples or cut at the
\* end; files that end inside the header; and whole files of the foreign
\* headers
BYN_buffer_set ==
    {BYN_make(h, Cyclic(p, BYN_count(h)), BYN_HEADER + BYN_ITEM * BYN_count(h)) :
        h \in BYN_header_set, p \in BYN_pattern_set}
    \cup
    {BYN_make(h, Cyclic(p, BYN_count(h) + e),
              BYN_HEADER + BYN_ITEM * (BYN_count(h) + e) - c) :
        h \in BYN_unit_header_set, p \in BYN_pattern_set,
        e \in 0..MaxExtra, c \in 0..MaxCut}
    \cup
    {BYN_make(h, <<>>, n) :
        h \in BYN_unit_header_set,
        n \in {0, BYN_READ1, BYN_READ2, BYN_READ3, BYN_READ4}}
    \cup
    {BYN_make(h, Cyclic(p, BYN_count(h)), BYN_HEADER + BYN_ITEM * BYN_count(h)) :
        h \in BYN_foreign_header_set, p \in BYN_pattern_set}

\* the fractions of a cell at which the queries lie
Query_fraction_set == {RInt(0), Rat(1, 2)}

\* query coordinates in degrees: the points of Query_fraction_set in every
\* arc-second from one before the origin to one past the largest boundary
Query_set ==
    {RDiv(RAdd(RInt(i), f), RInt(3600)) : i \in (-1)..(MaxExtent + 1), f \in Query_fraction_set}

\* a text: six header lines and body lines, the last c characters removed
T(s) == s \o <<"\n">>

GSF_lat_set == {<<"0", ".", "0">>, <<"1", ".", "0">>}
GSF_lon_set == {<<"0", ".", "0">>, <<"1", ".", "0">>, <<"-", "1", ".", "0">>}
GSF_count_set == {<<"1">>, <<"2">>, <<"-", "1">>}

GSF_pattern_set ==
    {<< <<"1", ".", "0">>, <<"2", ".", "0">>, <<"3", ".", "0">>, <<"4", ".", "0">> >>,
     << <<"N">>, <<"9", "9", "9", "9", ".", "0">>, <<"4", ".", "5">> >>,
     << <<"4", ".", "5">>, <<"x">> >>}

RECURSIVE Flatten(_)
Flatten(ls) == IF ls = <<>> THEN <<>> ELSE T(Head(ls)) \o Flatten(Tail(ls))

CutEnd(s, c) == SubSeq(s, 1, Max0(Len(s) - c))

GSF_text_set ==
    {CutEnd(Flatten(<<la, lo, <<"1", ".", "0">>, hi, n, m>> \o Cyclic(p, k)), c) :
        la \in GSF_lat_set, lo \in GSF_lon_set, hi \in GSF_lon_set,
        n \in GSF_count_set, m \in GSF_count_set,
        p \in GSF_pattern_set, k \in 0..MaxLines, c \in 0..MaxCut}

JAV_header_set ==
    [header : {"hdr"}, minx : {RInt(0)}, maxy : {RInt(1)}, maxx : {RInt(1)},
     miny : {RInt(0)}, dx : {Rat(1, 2)}, dy : {Rat(1, 2)},
     ncol : {0, 1, 2}, nrow : {1, 2}, ncol2 : {2}, nrow2 : {2},
     type_ : {3, 4, 5, 6}, interp : {1},
     zscale : {RInt(0), RInt(1), RInt(2)}, zmin : {RInt(0), RInt(-1)},
     nvals : {2, 4}]

JAV_pattern_set == {<<0, 1, 2, 3>>, <<10000, 9999, 5>>}

JAV_make(h, body, nbytes) ==
    [header |-> h.header, minx |-> h.minx, maxy |-> h.maxy, maxx |-> h.maxx,
     miny |-> h.miny, dx |-> h.dx, dy |-> h.dy, ncol |-> h.ncol, nrow |-> h.nrow,
     ncol2 |-> h.ncol2, nrow2 |-> h.nrow2, type_ |-> h.type_, interp |-> h.interp,
     zscale |-> h.zscale, zmin |-> h.zmin, nvals |-> h.nvals,
     body |-> body, nbytes |-> nbytes]

JAV_buffer_set ==
    {JAV_make(h, Cyclic(p, h.ncol * h.nrow + e),
              JAV_HEADER + JAV_size(h.type_) * (h.ncol * h.nrow + e) - c) :
        h \in JAV_header_set, p \in JAV_pattern_set, e \in 0..MaxExtra, c \in 0..MaxCut}
    \cup
    {JAV_make([h EXCEPT !.header = "bad"], Cyclic(p, h.ncol * h.nrow),
              JAV_HEADER + JAV_size(h.type_) * h.ncol * h.nrow) :
        h \in {g \in JAV_header_set : g.ncol = 2 /\ g.nrow = 2 /\ g.zscale = RInt(1)},
        p \in JAV_pattern_set}

\* the sample whose four bytes hold the 32-bit float nearest to 0.001; the
\* parser compares samples and never adds them, so the decimal stands for it
GFF_FLOAT32_001 == Rat(1, 1000)

GFF_pattern_set ==
    {<<RInt(2), RInt(1), RInt(0), RInt(-1), RInt(3)>>,
     <<RInt(999999), RInt(9999), Rat(5, 2), RInt(999998), RInt(1000000)>>,
     <<GFF_FLOAT32_001, RInt(2), Rat(1, 500), RInt(1), RInt(0)>>}

GFF_region_value == <<RInt(0), RInt(1), RInt(0), RInt(1), Rat(1, 2), Rat(1, 2)>>

\* the bytes of the blocks a buffer holds before its samples
GFF_prefix(r, y, x, d) ==
    (IF r THEN GFF_REGION_BLOCK ELSE 0) + (IF y THEN GFF_COUNT_BLOCK ELSE 0)
    + (IF x THEN GFF_COUNT_BLOCK ELSE 0) + (IF d THEN GFF_DATA_SKIP ELSE 0)

\* the cut never reaches into a tag: a buffer without any tag is not cut
GFF_buffer_set ==
    {[hasRegion |-> r, hasNY |-> y, hasNX |-> x, hasData |-> d,
      region |-> GFF_region_value, ny |-> ny, nx |-> nx,
      body |-> IF d THEN Cyclic(p, ny * nx + e) ELSE <<>>,
      nbytes |-> Max0(GFF_prefix(r, y, x, d)
                      + (IF d THEN GFF_SAMPLE * (ny * nx + e) ELSE 0) - c)] :
        r \in BOOLEAN, y \in BOOLEAN, x \in BOOLEAN, d \in BOOLEAN,
        ny \in {1, 2}, nx \in {1, 2}, p \in GFF_pattern_set,
        e \in 0..MaxExtra, c \in 0..MaxCut}

GGF_flag_set ==
    {<<b0, b1, b2, b3, b4, b5, 0, 0>> :
        b0 \in {0, 2}, b1 \in {0, 4}, b2 \in {0, 1}, b3 \in {0, 1, 4, 8},
        b4 \in {0, 1}, b5 \in {0, 1}}

GGF_pattern_set == {<<2, 4, 3>>, <<4, 1>>}

GGF_make(sig, version, ascii, lat, long, scalar, flags, body, nbytes) ==
    [sig |-> sig, version |-> version, ascii |-> ascii,
     LatMin |-> RInt(0), LatMax |-> lat[2], LongMin |-> RInt(0), LongMax |-> long[2],
     LatInterval |-> RInt(1), LongInterval |-> RInt(1),
     LatGridSize |-> lat[1], LongGridSize |-> long[1],
     GridMissing |-> RInt(2), GridScalar |-> scalar,
     flags |-> flags, body |-> body, nbytes |-> nbytes]

\* <<grid size, maximum>> of an axis from 0 with interval 1: the maximum
\* consistent, off by the tolerance, off by twice the tolerance
GGF_axis_set ==
    {<<n, RAdd(RInt(n - 1), Rat(t, 10000))>> : n \in 0..2, t \in 0..2}

\* the 4-byte words after the header: the samples and, in version 1, the footer
GGF_words(version, n, e) == n + (IF version = 1 THEN 4 ELSE 0) + e

\* files that differ in signature, version, name and flag bytes around a
\* 1 x 1 grid; files that differ in geometry, scaling and length; and a
\* file shorter than the header
GGF_buffer_set ==
    {GGF_make(sig, v, a, <<1, RInt(0)>>, <<1, RInt(0)>>, RInt(1), f,
              Cyclic(<<2, 4, 3>>, GGF_words(v, 1, 0)),
              GRID_HEADER_LENGTH + GGF_SAMPLE * GGF_words(v, 1, 0)) :
        sig \in BOOLEAN, v \in 0..2, a \in BOOLEAN, f \in GGF_flag_set}
    \cup
    {GGF_make(TRUE, v, TRUE, lat, long, sc, <<b0, 4, 1, b3, 1, 1, 0, 0>>,
              Cyclic(p, GGF_words(v, lat[1] * long[1], e)),
              GRID_HEADER_LENGTH + GGF_SAMPLE * GGF_words(v, lat[1] * long[1], e) - c) :
        v \in {0, 1}, lat \in GGF_axis_set,
        long \in {<<1, RInt(0)>>, <<1, RInt(1)>>},
        sc \in {RInt(0), RInt(1), RInt(2)}, b0 \in {0, 2}, b3 \in {4, 8},
        p \in GGF_pattern_set, e \in 0..MaxExtra, c \in 0..MaxCut}
    \cup
    {GGF_make(TRUE, 0, TRUE, <<1, RInt(0)>>, <<1, RInt(0)>>, RInt(1),
              <<0, 4, 1, 4, 1, 1, 0, 0>>, <<>>, GRID_HEADER_LENGTH - 1)}

----------------------------------------------------------------------------
(* The state machine.  obj is the parser object the caller holds, buf the  *)
(* input of its load, ret how the last call ended ("return" or the name of *)
(* the exception it raised), query and result the last interpolation.  A   *)
(* caller constructs a parser, loads one file into it, queries it and      *)
(* drops it.                                                               *)

NoObject == [cls |-> "none"]

NoBuffer == [fmt |-> "none"]

Init ==
    /\ obj = NoObject
    /\ buf = NoBuffer
    /\ ret = "none"
    /\ query = None
    /\ result = None
    /\ calls = <<>>

Loaded(r, b) ==
    /\ obj' = r.obj
    /\ ret' = r.ret
    /\ buf' = b
    /\ UNCHANGED <<query, result, calls>>

NewBYN ==
    /\ obj = NoObject
    /\ ret = "none"
    /\ obj' = BYN_init
    /\ UNCHANGED <<buf, ret, query, result, calls>>

LoadBYN ==
    /\ obj = BYN_init
    /\ ret = "none"
    /\ \E b \in BYN_buffer_set :
          Loaded(BYN_load_byn(obj, b), [fmt |-> "byn", b |-> b])

NewGSF ==
    /\ obj = NoObject
    /\ ret = "none"
    /\ obj' = GSF_init
    /\ UNCHANGED <<buf, ret, query, result, calls>>

LoadGSF ==
    /\ obj = GSF_init
    /\ ret = "none"
    /\ \E t \in GSF_text_set :
          Loaded(GSF_load_gsf(obj, t), [fmt |-> "gsf", text |-> t])

NewBinaryGeoid ==
    /\ obj = NoObject
    /\ ret = "none"
    /\ obj' = BinaryGeoid_init
    /\ UNCHANGED <<buf, ret, query, result, calls>>

LoadBinaryGeoid ==
    /\ obj = BinaryGeoid_init
    /\ ret = "none"
    /\ \E b \in JAV_buffer_set :
          Loaded(BinaryGeoid_load_geoid(obj, b), [fmt |-> "bin", b |-> b])

NewGFF ==
    /\ obj = NoObject
    /\ ret = "none"
    /\ obj' = GFF_init
    /\ UNCHANGED <<buf, ret, query, result, calls>>

LoadGFF ==
    /\ obj = GFF_init
    /\ ret = "none"
    /\ \E b \in GFF_buffer_set :
          Loaded(GFF_load_gff(obj, b), [fmt |-> "gff", b |-> b])

\* GGF(file_path, strict): the constructor reads and parses the file
NewGGF ==
    /\ obj = NoObject
    /\ ret = "none"
    /\ \E b \in GGF_buffer_set, strict \in BOOLEAN :
          Loaded(GGF_validateAndParse(b, strict),
                 [fmt |-> "ggf", b |-> b, strict |-> strict])

\* one compute_separation call on a loaded BYN object
ComputeSeparation ==
    /\ obj.cls = "BYN"
    /\ ret = "return"
    /\ query = None
    /\ \E longitude \in Query_set, latitude \in Query_set :
          /\ query' = Some(<<longitude, latitude>>)
          /\ result' = Some(BYN_compute_separation(obj, longitude, latitude))
          /\ obj' = BYN_self_after_compute(obj, longitude, latitude)
    /\ UNCHANGED <<buf, ret, calls>>

\* the grids on which calls are repeated: the whole 2 x 2 and 3 x 3 files of
\* one arc-second spacing with the samples 2, 4, 6, ...
Calls_grid_set ==
    {BYN_make(h, Cyclic(<<2, 4, 6, 8, 10, 12, 14>>, BYN_count(h)),
              BYN_HEADER + BYN_ITEM * BYN_count(h)) :
        h \in {g \in BYN_header_set :
                  /\ g.north = g.east /\ g.north \in {1, 2}
                  /\ g.spacing_ns = 1 /\ g.spacing_ew = 1 /\ g.factor = RInt(2)}}

\* the query points of the repeated calls, in degrees
Calls_query_set ==
    {<<longitude, latitude>> :
        longitude \in {Rat(1, 3600), Rat(3, 7200)},
        latitude \in {RInt(0), Rat(1, 7200), Rat(1, 3600)}}

\* a further compute_separation call on the loaded grid, run from its first
\* line to its return, and written down with its result
RepeatedCompute ==
    /\ obj.cls = "BYN"
    /\ ret = "return"
    /\ buf.b \in Calls_grid_set
    /\ query = None
    /\ Len(calls) < MaxCalls
    /\ \A k \in 1..Len(calls) : calls[k].op = "compute_separation" /\ calls[k].result # None
    /\ \E q \in Calls_query_set :
          /\ calls' = Append(calls,
                  [op |-> "compute_separation", query |-> q,
                   g |-> BYN_cell(obj, q[1], q[2]), L |-> <<>>,
                   concurrent |-> FALSE,
                   result |-> Some(BYN_compute_separation(obj, q[1], q[2]))])
          /\ obj' = BYN_self_after_compute(obj, q[1], q[2])
    /\ UNCHANGED <<buf, ret, query, result>>

\* the callers that share one grid
Thread_set == {1, 2}

\* a caller enters compute_separation and finds its cell; concurrent tells
\* whether a call of another caller is under way at this moment
BeginCompute ==
    /\ obj.cls = "BYN"
    /\ ret = "return"
    /\ buf.b \in Calls_grid_set
    /\ query = None
    /\ Len(calls) + 1 \in Thread_set
    /\ \A k \in 1..Len(calls) : calls[k].op = "compute_separation"
    /\ \E q \in Calls_query_set :
          calls' = Append(calls,
              [op |-> "compute_separation", query |-> q,
               g |-> BYN_cell(obj, q[1], q[2]), L |-> <<>>,
               concurrent |-> \E k \in 1..Len(calls) : calls[k].result = None,
               result |-> None])
    /\ UNCHANGED <<obj, buf, ret, query, result>>

\* a call under way extracts the next cell of its neighbourhood
ExtractNext ==
    /\ \E k \in 1..Len(calls) :
          /\ calls[k].op = "compute_separation"
          /\ calls[k].result = None
          /\ Len(calls[k].L) < 9
          /\ calls' = [calls EXCEPT ![k] = BYN_extract_next(obj, @)]
    /\ UNCHANGED <<obj, buf, ret, query, result>>

\* a call that holds its nine values interpolates and returns
ReturnCompute ==
    /\ \E k \in 1..Len(calls) :
          /\ calls[k].op = "compute_separation"
          /\ calls[k].result = None
          /\ Len(calls[k].L) = 9
          /\ calls' = [calls EXCEPT ![k].result =
                  Some([ret |-> "return",
                        value |-> Some(BYN_interpolate(obj, calls[k].L,
                                       calls[k].query[1], calls[k].query[2]))])]
          /\ obj' = BYN_self_after_compute(obj, calls[k].query[1], calls[k].query[2])
    /\ UNCHANGED <<buf, ret, query, result>>

\* the texts and files that are loaded a second time: whole files of a
\* 2 x 2 header (format D), of 2 x 1 and 2 x 2 headers (format E, 16-bit)
\* and of 1 x 2 and 2 x 2 headers (format C)
GSF_reload_set ==
    {Flatten(<< <<"0", ".", "0">>, <<"0", ".", "0">>, <<"1", ".", "0">>,
                <<"1", ".", "0">>, <<"1">>, <<"1">> >> \o Cyclic(p, k)) :
        p \in GSF_pattern_set, k \in {2, 4}}

JAV_reload_set ==
    {JAV_make(h, Cyclic(p, h.ncol * h.nrow),
              JAV_HEADER + JAV_size(h.type_) * h.ncol * h.nrow) :
        h \in {g \in JAV_header_set :
                  /\ g.ncol = 2 /\ g.type_ = 3 /\ g.zscale = RInt(1)
                  /\ g.zmin = RInt(0) /\ g.nvals = 4},
        p \in JAV_pattern_set}

GFF_reload_set ==
    {b \in GFF_buffer_set :
        /\ b.hasRegion /\ b.hasNY /\ b.hasNX /\ b.hasData
        /\ b.nx = 2
        /\ Len(b.body) = b.ny * b.nx
        /\ b.nbytes = GFF_prefix(TRUE, TRUE, TRUE, TRUE) + GFF_SAMPLE * Len(b.body)}

\* the load of r on the object that was loaded before, written down with
\* the buffer of the earlier load
Reloaded(r, b) ==
    /\ obj' = r.obj
    /\ ret' = r.ret
    /\ buf' = b
    /\ calls' = <<[op |-> "load", before |-> buf]>>
    /\ UNCHANGED <<query, result>>

\* load_gsf called a second time on the object, the file read anew
ReloadGSF ==
    /\ obj.cls = "GSF"
    /\ ret # "none"
    /\ calls = <<>>
    /\ buf.text \in GSF_reload_set
    /\ \E t \in GSF_reload_set :
          Reloaded(GSF_load_gsf(obj, t), [fmt |-> "gsf", text |-> t])

ReloadBinaryGeoid ==
    /\ obj.cls = "BinaryGeoid"
    /\ ret # "none"
    /\ calls = <<>>
    /\ buf.b \in JAV_reload_set
    /\ \E b \in JAV_reload_set :
          Reloaded(BinaryGeoid_load_geoid(obj, b), [fmt |-> "bin", b |-> b])

ReloadGFF ==
    /\ obj.cls = "GFF"
    /\ ret # "none"
    /\ calls = <<>>
    /\ buf.b \in GFF_reload_set
    /\ \E b \in GFF_reload_set :
          Reloaded(GFF_load_gff(obj, b), [fmt |-> "gff", b |-> b])

\* the caller drops the object
Discard ==
    /\ ~(obj = NoObject /\ ret = "none")
    /\ obj' = NoObject
    /\ buf' = NoBuffer
    /\ ret' = "none"
    /\ query' = None
    /\ result' = None
    /\ calls' = <<>>

\* the parsers alone
NextParse ==
    \/ NewBYN \/ LoadBYN
    \/ NewGSF \/ LoadGSF
    \/ NewBinaryGeoid \/ LoadBinaryGeoid
    \/ NewGFF \/ LoadGFF
    \/ NewGGF
    \/ Discard

\* the BYN parser and its interpolator
NextInterp ==
    \/ NewBYN \/ LoadBYN
    \/ ComputeSeparation
    \/ Discard

Next ==
    \/ NextParse
    \/ ComputeSeparation \/ RepeatedCompute
    \/ BeginCompute \/ ExtractNext \/ ReturnCompute
    \/ ReloadGSF \/ ReloadBinaryGeoid \/ ReloadGFF

Spec == Init /\ [][Next]_vars

SpecParse == Init /\ [][NextParse]_vars

SpecInterp == Init /\ [][NextInterp]_vars

\* the BYN parser and compute_separation calls made one after the other
NextRepeat ==
    \/ NewBYN \/ LoadBYN
    \/ RepeatedCompute
    \/ Discard

SpecRepeat == Init /\ [][NextRepeat]_vars

\* the parsers whose load can be called again on the same object
NextReload ==
    \/ NewGSF \/ LoadGSF \/ ReloadGSF
    \/ NewBinaryGeoid \/ LoadBinaryGeoid \/ ReloadBinaryGeoid
    \/ NewGFF \/ LoadGFF \/ ReloadGFF
    \/ Discard

SpecReload == Init /\ [][NextReload]_vars

\* the BYN parser and the calls of several callers on one grid, interleaved
\* at every extraction
NextShared ==
    \/ NewBYN \/ LoadBYN
    \/ BeginCompute \/ ExtractNext \/ ReturnCompute
    \/ Discard

SpecShared == Init /\ [][NextShared]_vars

----------------------------------------------------------------------------
(* What the claims speak of: the outcome of a parse and the grid it left.  *)

\* the last load ended without an error: it returned and, for GGF, valid
Succeeded(r) ==
    /\ r.ret = "return"
    /\ r.obj.cls = "GGF" => r.obj._valid = Some(TRUE)

ParseSucceeded == Succeeded([obj |-> obj, ret |-> ret])

\* the last load ended with an error: an exception, or GGF's error number
ParseFailed ==
    \/ ret \notin {"none", "return"}
    \/ ret = "return" /\ obj.cls = "GGF" /\ obj._valid = Some(FALSE)

\* the value sequence of the object, <<>> when it has none yet
Values(o) ==
    IF o.cls = "GSF" THEN o.undulations
    ELSE IF o.cls = "GGF" THEN (IF o._grid = None THEN <<>> ELSE o._grid[1])
    ELSE IF o.cls = "BYN" THEN (IF o.geoid_values = None THEN <<>> ELSE o.geoid_values[1])
    ELSE o.geoid_values

\* the row and column counts of the object, None or <<n>>
Rows(o) == IF o.cls = "GGF" THEN o._LatGridSize ELSE o.rows

Columns(o) == IF o.cls = "GGF" THEN o._LongGridSize ELSE o.columns

\* the grid is complete: both counts are set and every node has its value
GridComplete(o) ==
    /\ Rows(o) # None
    /\ Columns(o) # None
    /\ Len(Values(o)) = Rows(o)[1] * Columns(o)[1]

\* C1: every parse that finishes without an error leaves as many decoded
\* values as rows*columns; a buffer with another number of values yields no
\* grid.  Refuted: load_gsf takes the counts from the header and whatever
\* lines follow as the values, and checks nothing.
C1_ValueCountMatches == ParseSucceeded => GridComplete(obj)

----------------------------------------------------------------------------
(* The interpolator's claims.                                              *)

\* the cell of the last query and its neighbourhood
QueryCell == BYN_cell(obj, query[1][1], query[1][2])

QueryCells == BYN_neighbourhood(QueryCell)

CellInGrid(c) ==
    /\ 0 <= c[1] /\ c[1] < obj.columns[1]
    /\ 0 <= c[2] /\ c[2] < obj.rows[1]

\* the value of grid cell c, rows counted from the south, disk rows from the north
StoredValue(c) ==
    obj.geoid_values[1][(obj.rows[1] - 1 - c[2]) * obj.columns[1] + c[1] + 1]

\* C2: the neighbourhood extraction gives 0 for every cell outside the grid
\* (cell_x < 0, cell_x >= columns, cell_y < 0 or cell_y >= rows) and the
\* stored value for every cell inside it.  Refuted: the bounds test lets
\* cell_x = columns and cell_y = rows through.
C2_OutsideCellsAreZero ==
    query # None =>
        \A i \in 1..9 :
            BYN_extract_value(obj, QueryCells[i][1], QueryCells[i][2]) =
                IF CellInGrid(QueryCells[i]) THEN Some(StoredValue(QueryCells[i]))
                ELSE Some(RInt(0))

\* C3: compute_separation never raises, wherever the query point lies.
\* Refuted: a neighbourhood cell with cell_x = columns in the southernmost
\* row indexes one past the end of the values.
C3_ComputeNeverRaises == result # None => result[1].ret = "return"

\* every node of the grid holds the same value
ConstantGrid == \A i \in 1..Len(Values(obj)) : Values(obj)[i] = Values(obj)[1]

\* the query point in arc-seconds
QueryPointX == RMul(query[1][1], RInt(3600))

QueryPointY == RMul(query[1][2], RInt(3600))

\* the query point lies strictly inside the boundary of the grid
StrictlyInside ==
    /\ RLess(RInt(obj.boundary_west[1]), QueryPointX)
    /\ RLess(QueryPointX, RInt(obj.boundary_east[1]))
    /\ RLess(RInt(obj.boundary_south[1]), QueryPointY)
    /\ RLess(QueryPointY, RInt(obj.boundary_north[1]))

\* the whole 3 x 3 neighbourhood of the query cell lies inside the grid
InteriorCell == \A i \in 1..9 : CellInGrid(QueryCells[i])

ReturnsFirstValue == result[1] = [ret |-> "return", value |-> Some(Values(obj)[1])]

----------------------------------------------------------------------------
(* The parsers' claims on the length of the buffer.                        *)

\* a fresh parser of the buffer's format given the buffer
Parse(b) ==
    IF b.fmt = "byn" THEN BYN_load_byn(BYN_init, b.b)
    ELSE IF b.fmt = "gsf" THEN GSF_load_gsf(GSF_init, b.text)
    ELSE IF b.fmt = "bin" THEN BinaryGeoid_load_geoid(BinaryGeoid_init, b.b)
    ELSE IF b.fmt = "gff" THEN GFF_load_gff(GFF_init, b.b)
    ELSE GGF_validateAndParse(b.b, b.strict)

\* the buffer has a last byte
NonEmpty(b) == IF b.fmt = "gsf" THEN Len(b.text) > 0 ELSE b.b.nbytes > 0

\* the buffer without its last byte
WithoutLastByte(b) ==
    IF b.fmt = "gsf" THEN [b EXCEPT !.text = CutEnd(@, 1)]
    ELSE [b EXCEPT !.b.nbytes = @ - 1]

\* C5: a buffer that parses, given again without its last byte, fails to
\* parse: no grid comes of it, neither with fewer values nor with another
\* last value.  Refuted: load_gsf reads the lines that are there, and the
\* binary readers take no notice of bytes they do not need.
C5_TruncationFails ==
    (ParseSucceeded /\ NonEmpty(buf)) => ~Succeeded(Parse(WithoutLastByte(buf)))

\* |min + (n - 1) * interval - max| is within the tolerance 0.0001
AxisConsistent(min, max, interval, n) ==
    LET d == RSub(RAdd(min, RMul(RInt(n - 1), interval)), max)
    IN  ~RLess(Rat(1, 10000), <<Abs(d[1]), d[2]>>)

\* the GGF buffer passes every check before the one on its length
PassesHeaderAndFlags(b, strict) ==
    /\ b.nbytes >= 146
    /\ b.sig
    /\ b.version <= 1
    /\ b.ascii
    /\ AxisConsistent(b.LatMin, b.LatMax, b.LatInterval, b.LatGridSize)
    /\ AxisConsistent(b.LongMin, b.LongMax, b.LongInterval, b.LongGridSize)
    /\ GGF_parseFlags(b.flags, strict).errorNumber = 0

\* 146 + LatGridSize * LongGridSize * 4, and 16 more in version 1
ExpectedLength(b) ==
    146 + b.LatGridSize * b.LongGridSize * 4 + (IF b.version = 1 THEN 16 ELSE 0)

\* C6: a GGF buffer that passes the header and flag checks fails with error
\* 6 exactly when its length is not 146 + LatGridSize*LongGridSize*4 (plus
\* 16 in version 1), and parses when its length is that.  Refuted: with the
\* scaled flag set and a scalar of 0 the buffer of the right length ends in
\* a ZeroDivisionError.
C6_LengthDecides ==
    (buf.fmt = "ggf" /\ PassesHeaderAndFlags(buf.b, buf.strict)) =>
        IF buf.b.nbytes # ExpectedLength(buf.b)
        THEN ret = "return" /\ obj.cls = "GGF" /\ obj._errorNumber = Some(6)
        ELSE ParseSucceeded

----------------------------------------------------------------------------
(* The parsers' claims on missing samples.  Sample i of the buffer and the *)
(* value decoded from it stand at the same index.                          *)

\* the body lines of a GSF text
BodyLines(text) == SubSeq(SplitLines(text), 7, Len(SplitLines(text)))

\* the marker the format's parser writes for a missing sample
Marker(fmt) == IF fmt = "ggf" THEN None ELSE RInt(9999)

\* format B compares the sample as it stands after the division by the scalar
GGF_compared(b, raw) ==
    IF obj._flags[1].GIF_GRID_SCALED THEN RDiv(RInt(raw), b.GridScalar) ELSE RInt(raw)

\* the sentinels as the claim lists them: 0 and 1 in C and in 16-bit E, the
\* raw header missing value in B
ClaimedSentinel(raw) ==
    IF buf.fmt = "bin" THEN obj.type_[1] = 3 /\ raw \in {0, 1}
    ELSE IF buf.fmt = "gff" THEN raw \in {RInt(0), RInt(1)}
    ELSE IF buf.fmt = "ggf" THEN RInt(raw) = buf.b.GridMissing
    ELSE FALSE

\* the sentinels of each format: in C also 999999 and every negative value,
\* in B the sample that equals the missing value when compared
Sentinel(raw) ==
    IF buf.fmt = "bin" THEN obj.type_[1] = 3 /\ raw \in {0, 1}
    ELSE IF buf.fmt = "gff"
         THEN raw \in {RInt(0), RInt(1), RInt(999999)} \/ RLess(raw, RInt(0))
    ELSE IF buf.fmt = "ggf" THEN GGF_compared(buf.b, raw) = buf.b.GridMissing
    ELSE FALSE

\* raw plus d in the number type of the format's samples
Shifted(raw, d) == IF buf.fmt = "gff" THEN RAdd(raw, RInt(d)) ELSE raw + d

\* the number the format's rule gives for an ordinary sample
Numeric(raw) ==
    IF buf.fmt = "bin"
    THEN RAdd(buf.b.zmin, RDiv(RInt(raw - 1), buf.b.zscale))
    ELSE IF buf.fmt = "gff" THEN raw
    ELSE GGF_compared(buf.b, raw)

\* the states whose samples the claims speak of: a binary buffer parsed
BinaryParsed == ParseSucceeded /\ buf.fmt \in {"bin", "gff", "ggf"}

TextParsed == ParseSucceeded /\ buf.fmt = "gsf"

StartsWithN(line) == line # <<>> /\ line[1] = "N"

C8_MarkerOnlyFromSentinel ==
    /\ BinaryParsed =>
          \A i \in 1..Len(Values(obj)) :
              Values(obj)[i] = Marker(buf.fmt) => Sentinel(buf.b.body[i])
    /\ TextParsed =>
          \A i \in 1..Len(Values(obj)) :
              Values(obj)[i] = Marker(buf.fmt) => StartsWithN(BodyLines(buf.text)[i])

\* C9: all parsers write one and the same marker for a missing sample, the
\* 9999.0 of C, D and E.  Refuted: the GGF parser writes None.
C9_OneMarker ==
    /\ BinaryParsed =>
          \A i \in 1..Len(Values(obj)) :
              Sentinel(buf.b.body[i]) => Values(obj)[i] = MISSING_MARKER
    /\ TextParsed =>
          \A i \in 1..Len(Values(obj)) :
              StartsWithN(BodyLines(buf.text)[i]) => Values(obj)[i] = MISSING_MARKER

\* the object holds nothing read from a buffer
HoldsNothing(o) ==
    \/ o.cls = "none"
    \/ o \in {BYN_init, GSF_init, BinaryGeoid_init, GFF_init}
    \/ o.cls = "GGF" /\ [o EXCEPT !._valid = None, !._errorNumber = None] = GGF_new

\* C10: a parse ends in a complete grid or in an error, and after an error
\* nothing of the rejected buffer is left in the object.  Refuted: every
\* parser assigns the header fields as it reads them and keeps them when a
\* later step fails.
C10_GridOrNothing ==
    /\ ParseSucceeded => GridComplete(obj)
    /\ ParseFailed => HoldsNothing(obj)

----------------------------------------------------------------------------
(* The parsers' claims on how a failure is reported.                       *)

\* C11: every parse failure reaches the caller as an error value, never as
\* an exception: a zero factor, scalar or zscale, a buffer that ends inside
\* the header, a body line that is no number.  Refuted: only the GGF parser
\* returns error numbers, and it too lets the division by a zero scalar
\* raise; the others raise struct.error, EOFError, ValueError, TypeError and
\* ZeroDivisionError.
C11_FailuresAreValues == ret \in {"none", "return"}

\* the buffer lacks what the claim has its parser check before decoding
LacksSignature(b) ==
    IF b.fmt = "ggf" THEN ~b.b.sig
    ELSE IF b.fmt = "byn"
         THEN b.b.data_type # 1 \/ b.b.data_size # 4 \/ b.b.byte_order # 1
    ELSE IF b.fmt = "gff"
         THEN ~(b.b.hasRegion /\ b.b.hasNY /\ b.b.hasNX /\ b.b.hasData)
    ELSE IF b.fmt = "bin" THEN b.b.header # "hdr"
    ELSE FALSE

\* C12: every parser checks a signature or plausibility condition before it
\* decodes and fails when the check does not pass: B the bytes 2..15, A the
\* data type, data size and byte order, C the presence of its four tags, E
\* the header.  Refuted: only B checks; in A the check is commented out, C
\* skips the block of a tag it does not find, E never looks at its header.
C12_SignatureChecked == (ret # "none" /\ LacksSignature(buf)) => ParseFailed

\* the type of a Javad file whose header was read is none of 3, 4, 5
JAV_TypeUnsupported ==
    /\ buf.fmt = "bin"
    /\ buf.b.nbytes >= 178
    /\ buf.b.type_ \notin {3, 4, 5}

\* a GGF file that passes the checks before the data format and has neither
\* the LONG nor the FLOAT bit set
GGF_FormatUnsupported ==
    /\ buf.fmt = "ggf"
    /\ buf.b.nbytes >= 146 /\ buf.b.sig /\ buf.b.version <= 1 /\ buf.b.ascii
    /\ AxisConsistent(buf.b.LatMin, buf.b.LatMax, buf.b.LatInterval, buf.b.LatGridSize)
    /\ AxisConsistent(buf.b.LongMin, buf.b.LongMax, buf.b.LongInterval, buf.b.LongGridSize)
    /\ ~bitSet(buf.b.flags[4], 2)
    /\ ~bitSet(buf.b.flags[4], 3)
    /\ ~(buf.strict /\ buf.b.flags[2] = 0)
    /\ buf.b.flags[3] # 0

\* C13: a data type outside the supported set makes the parse fail and no
\* grid, empty or not, is returned: in B neither LONG nor FLOAT, in E a type
\* that is none of 3, 4, 5.  Refuted: load_geoid has no branch for another
\* type, reads nothing and returns with rows and columns set and no values.
C13_UnsupportedEncodingFails ==
    /\ GGF_FormatUnsupported =>
          obj.cls = "GGF" /\ obj._valid = Some(FALSE)
          /\ obj._errorNumber \in {Some(103), Some(202)} /\ obj._grid = None
    /\ JAV_TypeUnsupported => ParseFailed

----------------------------------------------------------------------------
(* The claims on the geometry of the grid.                                 *)

\* a number of the object as a rational: BYN keeps its header as integers
AsRational(o, v) == IF o.cls = "BYN" THEN RInt(v) ELSE v

\* boundary and spacing of the object as the caller reads them, None or <<r>>
South(o) == IF o.cls = "GGF" THEN o._LatMin ELSE o.boundary_south

North(o) == IF o.cls = "GGF" THEN o._LatMax ELSE o.boundary_north

West(o) == IF o.cls = "GGF" THEN o._LongMin ELSE o.boundary_west

East(o) == IF o.cls = "GGF" THEN o._LongMax ELSE o.boundary_east

SpacingNS(o) == IF o.cls = "GGF" THEN o._LatInterval ELSE o.spacing_ns

SpacingEW(o) == IF o.cls = "GGF" THEN o._LongInterval ELSE o.spacing_ew

GeometrySet(o) ==
    /\ South(o) # None /\ North(o) # None /\ West(o) # None /\ East(o) # None
    /\ SpacingNS(o) # None /\ SpacingEW(o) # None
    /\ Rows(o) # None /\ Columns(o) # None

\* rounding to the nearest integer, a half away from zero
Round(r) ==
    IF RLess(r, RInt(0)) THEN 0 - RFloor(RAdd(<<0 - r[1], r[2]>>, Rat(1, 2)))
    ELSE RFloor(RAdd(r, Rat(1, 2)))

\* round((hi - lo) / spacing) + 1 = count, with a spacing that is not 0
CountFromGeometry(o, lo, hi, spacing, count) ==
    /\ ~RIsZero(AsRational(o, spacing))
    /\ count = Round(RDiv(RSub(AsRational(o, hi), AsRational(o, lo)),
                          AsRational(o, spacing))) + 1

\* C14: in every grid a parser returns, columns = round((east - west) /
\* spacing_ew) + 1 and rows = round((north - south) / spacing_ns) + 1.
\* Refuted: load_byn truncates instead of rounding, load_gsf takes the
\* counts from the header and divides the extent by them, load_geoid and
\* load_gff take the counts from the header and keep the boundary in degrees
\* beside a spacing in radians.
C14_CountsFromGeometry ==
    (ParseSucceeded /\ GeometrySet(obj)) =>
        /\ CountFromGeometry(obj, West(obj)[1], East(obj)[1], SpacingEW(obj)[1],
                             Columns(obj)[1])
        /\ CountFromGeometry(obj, South(obj)[1], North(obj)[1], SpacingNS(obj)[1],
                             Rows(obj)[1])

----------------------------------------------------------------------------
(* The claims on format B.                                                 *)

\* the grid parseGrid decodes from the samples of the parsed file with the
\* scaled flag as given
GridWithFlag(isScaled) ==
    GGF_parseGrid(obj, buf.b, obj._flags[1].GIF_FORMAT_FLOAT, isScaled, buf.b.GridScalar)

\* C15: on the same samples and a scalar s that is not 0, every value
\* decoded with the scaled flag set is the value decoded with the flag clear
\* divided by s, and the same samples are missing in both.  Refuted: the
\* sample is compared with the missing value after the division, so a sample
\* equal to the missing value is a number in the scaled grid, and a sample
\* equal to s times the missing value is missing in the scaled grid only.
C15_ScaledIsUnscaledOverScalar ==
    (ParseSucceeded /\ buf.fmt = "ggf" /\ ~RIsZero(buf.b.GridScalar)) =>
        \A i \in 1..Len(Values(obj)) :
            /\ GridWithFlag(TRUE)[i] = None <=> GridWithFlag(FALSE)[i] = None
            /\ GridWithFlag(FALSE)[i] # None =>
                  GridWithFlag(TRUE)[i] = RDiv(GridWithFlag(FALSE)[i], buf.b.GridScalar)

\* C16 as stated: a version field greater than 1 fails the parse with error
\* 3, only the versions 0 and 1 can succeed, and the version attribute is set
\* only for an accepted version.  Refuted: the length and the signature are
\* checked before the version, so a file without the signature fails with
\* error 2 whatever its version field.
C16_VersionAboveOneIsError3 ==
    buf.fmt = "ggf" =>
        /\ buf.b.version > 1 =>
              ret = "return" /\ obj.cls = "GGF" /\ obj._errorNumber = Some(3)
        /\ ParseSucceeded => buf.b.version \in {0, 1}
        /\ (obj.cls = "GGF" /\ obj._version # None) => buf.b.version \in {0, 1}

\* C16 amended: a file of at least 146 bytes that carries the signature and
\* has a version field greater than 1 fails the parse with error 3, only the
\* versions 0 and 1 can succeed, and the version attribute is set only for
\* an accepted version.
C16_SignedVersionAboveOneIsError3 ==
    buf.fmt = "ggf" =>
        /\ (buf.b.nbytes >= 146 /\ buf.b.sig /\ buf.b.version > 1) =>
              ret = "return" /\ obj.cls = "GGF" /\ obj._errorNumber = Some(3)
        /\ ParseSucceeded => buf.b.version \in {0, 1}
        /\ (obj.cls = "GGF" /\ obj._version # None) => buf.b.version \in {0, 1}

\* C16 witness: a signed file of version 2 was refused with error 3 and the
\* version attribute left unset
C16_Witness ==
    /\ buf.fmt = "ggf"
    /\ buf.b.sig
    /\ buf.b.version = 2
    /\ obj.cls = "GGF"
    /\ obj._errorNumber = Some(3)
    /\ obj._valid = Some(FALSE)
    /\ obj._version = None

\* the error number the GGF object holds, None when there is no object
ErrorNumber == IF obj.cls = "GGF" THEN obj._errorNumber ELSE None

\* the GGF buffer passes the checks that come before the two on the axes
ReachesAxisChecks(b) ==
    /\ b.nbytes >= 146
    /\ b.sig
    /\ b.version <= 1
    /\ b.ascii

LatOff(b) == ~AxisConsistent(b.LatMin, b.LatMax, b.LatInterval, b.LatGridSize)

LongOff(b) == ~AxisConsistent(b.LongMin, b.LongMax, b.LongInterval, b.LongGridSize)

\* C17: the parse fails with error 4 exactly when the latitude axis is off by
\* more than 0.0001 and with error 5 exactly when (the latitude axis passing)
\* the longitude axis is, and a grid size of 0 on an axis never passes.
\* Refuted: with a grid size of 0 the test compares min - interval with max,
\* and a header with max = min - interval passes it.
C17_AxisToleranceDecides ==
    (buf.fmt = "ggf" /\ ReachesAxisChecks(buf.b)) =>
        /\ ErrorNumber = Some(4) <=> LatOff(buf.b)
        /\ ErrorNumber = Some(5) <=> (~LatOff(buf.b) /\ LongOff(buf.b))
        /\ (buf.b.LatGridSize = 0 \/ buf.b.LongGridSize = 0) =>
              ErrorNumber \in {Some(4), Some(5)}

----------------------------------------------------------------------------
(* The claims on format D.                                                 *)

\* header line i of the parsed text as a number
HeaderFloat(i) == PyFloat(SplitLines(buf.text)[i])

HeaderInt(i) == PyInt(SplitLines(buf.text)[i])[1]

\* the values are the body lines in file order, a line that starts with N
\* standing for a missing sample
ValuesAreBodyLines ==
    /\ Len(Values(obj)) = Len(BodyLines(buf.text))
    /\ \A i \in 1..Len(Values(obj)) :
          \/ StartsWithN(BodyLines(buf.text)[i])
          \/ Values(obj)[i] = PyFloat(Strip(BodyLines(buf.text)[i]))

\* the text of the example: header 0.0 / 0.0 / 1.0 / 1.0 / 1 / 1 and the
\* body 1.0, 2.0, 3.0, 4.0
ExampleText ==
    Flatten(<< <<"0", ".", "0">>, <<"0", ".", "0">>, <<"1", ".", "0">>,
               <<"1", ".", "0">>, <<"1">>, <<"1">>,
               <<"1", ".", "0">>, <<"2", ".", "0">>, <<"3", ".", "0">>,
               <<"4", ".", "0">> >>)

\* the grid the example is to give
ExampleGrid ==
    /\ obj.rows = Some(2) /\ obj.columns = Some(2)
    /\ obj.boundary_south = Some(RInt(0)) /\ obj.boundary_north = Some(RInt(1))
    /\ obj.boundary_west = Some(RInt(0)) /\ obj.boundary_east = Some(RInt(1))
    /\ obj.undulations = <<RInt(1), RInt(2), RInt(3), RInt(4)>>

\* a negative longitude reflected through 360, another one unchanged
Reflected(lon) == IF lon[1] < 0 THEN <<360 * lon[2] + lon[1], lon[2]>> ELSE lon

\* C18 as stated: count lines N and M give columns = N + 1 and rows = M + 1,
\* the four boundary fields equal the first four header lines, the values
\* are the body lines in file order, and the example gives its grid.
\* Refuted: a negative longitude line does not become the boundary field as
\* it stands, -1.0 becomes 359.0.
C18_HeaderBecomesGrid ==
    TextParsed =>
        /\ obj.columns = Some(HeaderInt(5) + 1)
        /\ obj.rows = Some(HeaderInt(6) + 1)
        /\ obj.boundary_south = Some(HeaderFloat(1))
        /\ obj.boundary_west = Some(HeaderFloat(2))
        /\ obj.boundary_north = Some(HeaderFloat(3))
        /\ obj.boundary_east = Some(HeaderFloat(4))
        /\ ValuesAreBodyLines
        /\ buf.text = ExampleText => ExampleGrid

\* C18 amended: count lines N and M give columns = N + 1 and rows = M + 1,
\* boundary_south and boundary_north equal header lines 1 and 3,
\* boundary_west and boundary_east equal header lines 2 and 4 when these are
\* not negative and 360 - |L| for a negative L, the values are the body lines
\* in file order, and the example gives its grid.
C18_HeaderBecomesGridReflected ==
    TextParsed =>
        /\ obj.columns = Some(HeaderInt(5) + 1)
        /\ obj.rows = Some(HeaderInt(6) + 1)
        /\ obj.boundary_south = Some(HeaderFloat(1))
        /\ obj.boundary_west = Some(Reflected(HeaderFloat(2)))
        /\ obj.boundary_north = Some(HeaderFloat(3))
        /\ obj.boundary_east = Some(Reflected(HeaderFloat(4)))
        /\ ValuesAreBodyLines
        /\ buf.text = ExampleText => ExampleGrid

\* C18 witness: the example text was parsed into its grid
C18_Witness == TextParsed /\ buf.text = ExampleText /\ ExampleGrid

\* the boundary fields of a GSF object have been assigned
BoundaryAssigned == buf.fmt = "gsf" /\ obj.boundary_east # None

\* C19: a negative header longitude L becomes the boundary value 360 - |L|,
\* one that is not negative is kept, for the west and for the east boundary,
\* and the latitudes are not altered.
C19_LongitudeReflected ==
    BoundaryAssigned =>
        /\ obj.boundary_west = Some(Reflected(HeaderFloat(2)))
        /\ obj.boundary_east = Some(Reflected(HeaderFloat(4)))
        /\ obj.boundary_south = Some(HeaderFloat(1))
        /\ obj.boundary_north = Some(HeaderFloat(3))

\* C19 witness: west -1.0 became 359.0 while east 1.0 was kept
C19_Witness ==
    /\ BoundaryAssigned
    /\ HeaderFloat(2) = RInt(-1)
    /\ HeaderFloat(4) = RInt(1)
    /\ obj.boundary_west = Some(RInt(359))
    /\ obj.boundary_east = Some(RInt(1))

----------------------------------------------------------------------------
(* The claims on format E.                                                 *)

\* a Javad file of a supported type was parsed
JavadParsed == ParseSucceeded /\ buf.fmt = "bin" /\ buf.b.type_ \in {3, 4, 5}

\* the value the rule of the file's type gives for sample v
DecodedByType(v) ==
    IF buf.b.type_ = 3
    THEN IF v \in {0, 1} THEN RInt(9999)
         ELSE RAdd(buf.b.zmin, RDiv(RInt(v - 1), buf.b.zscale))
    ELSE IF buf.b.type_ = 4 THEN RAdd(buf.b.zmin, RDiv(RInt(v), buf.b.zscale))
    ELSE RAdd(buf.b.zmin, RInt(v))

\* every sample is decoded by the rule of the type and rows * columns
\* samples are consumed
SamplesDecodedByType ==
    /\ Len(Values(obj)) = buf.b.nrow * buf.b.ncol
    /\ \A i \in 1..Len(Values(obj)) : Values(obj)[i] = DecodedByType(buf.b.body[i])

\* C20: type 3 decodes 0 and 1 to missing and v to zmin + (v - 1) / zscale,
\* type 4 decodes v to zmin + v / zscale, type 5 decodes v to zmin + v;
\* rows * columns samples are consumed and this count agrees with the total
\* value count of the header.  Refuted: nvals is read and never compared, a
\* file whose nvals differs from nrow * ncol parses.
C20_DecodedByTypeAndCounted ==
    JavadParsed => (SamplesDecodedByType /\ buf.b.nrow * buf.b.ncol = buf.b.nvals)

GFFParsed == ParseSucceeded /\ buf.fmt = "gff"

\* the samples format C replaces as the claim lists them
C21_Listed(raw) ==
    \/ raw \in {RInt(0), RInt(999999), RInt(1), GFF_FLOAT32_001}
    \/ RLess(raw, RInt(0))

\* C21: a decoded float of format C is replaced by the missing marker exactly
\* when it is 0, 999999, negative, 1 or the 32-bit float 0.001, every other
\* value is stored unchanged, and so every entry of a format-C grid is the
\* marker or a strictly positive value different from 1.  Refuted: the 32-bit
\* float 0.001 differs from the literal it is compared with and is stored as
\* it is.
C21_ReplacedExactlyWhenListed ==
    GFFParsed =>
        \A i \in 1..Len(Values(obj)) :
            LET raw == buf.b.body[i]
                v   == Values(obj)[i]
            IN  /\ v = (IF C21_Listed(raw) THEN MISSING_MARKER ELSE raw)
                /\ \/ v = MISSING_MARKER
                   \/ RLess(RInt(0), v) /\ v # RInt(1)

\* C30: in format D every header with min_lon <= max_lon gives a grid with
\* boundary_west <= boundary_east and boundary_east - boundary_west =
\* spacing_ew * columns, also when min_lon is negative and max_lon is not.
\* Refuted: the boundaries are reflected through 360 and the spacing is
\* taken from the header lines, so -1.0 and 1.0 give west 359 and east 1.
C30_ExtentConsistent ==
    (TextParsed /\ ~RLess(HeaderFloat(4), HeaderFloat(2))) =>
        /\ ~RLess(East(obj)[1], West(obj)[1])
        /\ RSub(East(obj)[1], West(obj)[1])
              = RMul(SpacingEW(obj)[1], RInt(Columns(obj)[1]))

\* the flag checks in the order of the claim: 101, 102, 103, 202, 104, 105
C28_FirstFlagError(fb, strict) ==
    IF strict /\ fb[2] = 0 THEN 101
    ELSE IF fb[3] = 0 THEN 102
    ELSE IF fb[4] = 0 THEN 103
    ELSE IF ~(bitSet(fb[4], 2) \/ bitSet(fb[4], 3)) THEN 202
    ELSE IF strict /\ fb[5] = 0 THEN 104
    ELSE IF strict /\ fb[6] = 0 THEN 105
    ELSE 0

\* the error of the first failing check in the order of the claim, 0 when
\* every check passes
C28_FirstError(b, strict) ==
    IF b.nbytes < 146 THEN 1
    ELSE IF ~b.sig THEN 2
    ELSE IF b.version > 1 THEN 3
    ELSE IF LatOff(b) THEN 4
    ELSE IF LongOff(b) THEN 5
    ELSE IF C28_FirstFlagError(b.flags, strict) # 0
         THEN C28_FirstFlagError(b.flags, strict)
    ELSE IF b.nbytes # ExpectedLength(b) THEN 6
    ELSE 0

\* C28: validateAndParse applies its checks in the order length (1),
\* signature (2), version (3), latitude (4), longitude (5), flags (101, 102,
\* 103, 202, 104, 105), file size (6) and returns the error of the first
\* failing check; the grid is decoded only after all checks have passed, and
\* valid is True exactly when errorNumber is 0.  Refuted: between the version
\* check and the latitude check the name is decoded as ASCII, and after the
\* last check the samples are divided by the scalar; both can raise, and
\* then no error is returned at all.
C28_FirstFailingCheckReturned ==
    buf.fmt = "ggf" =>
        /\ ret = "return"
        /\ ErrorNumber = Some(C28_FirstError(buf.b, buf.strict))
        /\ obj._valid = Some(ErrorNumber = Some(0))
        /\ (obj._grid # None) <=> (ErrorNumber = Some(0))

\* the GGF buffer passes every check that comes before the flag checks
ReachesFlagChecks(b) == ReachesAxisChecks(b) /\ ~LatOff(b) /\ ~LongOff(b)

\* the interpolation and data-format bytes pass their checks
C26_FormatBytesPass(fb) ==
    fb[3] # 0 /\ fb[4] # 0 /\ (bitSet(fb[4], 2) \/ bitSet(fb[4], 3))

\* C26: with strict=True a zero units, latitude-direction or
\* longitude-direction byte fails the parse, with code 101, 104 or 105 when
\* the check is the first to fail; with strict=False none of the three can
\* fail the parse and the flags default to meters, latitude ascending and
\* longitude ascending; a zero interpolation byte (102) or data-format byte
\* (103) fails the parse in both modes.
C26_StrictDecidesThreeChecks ==
    buf.fmt = "ggf" =>
        LET fb     == buf.b.flags
            strict == buf.strict
        IN  /\ (strict /\ (fb[2] = 0 \/ fb[5] = 0 \/ fb[6] = 0)) => ParseFailed
            /\ (fb[3] = 0 \/ fb[4] = 0) => ParseFailed
            /\ ~strict => ErrorNumber \notin {Some(101), Some(104), Some(105)}
            /\ ReachesFlagChecks(buf.b) =>
                  /\ (strict /\ fb[2] = 0) => ErrorNumber = Some(101)
                  /\ (strict /\ fb[2] # 0 /\ C26_FormatBytesPass(fb) /\ fb[5] = 0)
                        => ErrorNumber = Some(104)
                  /\ (strict /\ fb[2] # 0 /\ C26_FormatBytesPass(fb)
                        /\ fb[5] # 0 /\ fb[6] = 0)
                        => ErrorNumber = Some(105)
                  /\ (~(strict /\ fb[2] = 0) /\ fb[3] = 0) => ErrorNumber = Some(102)
                  /\ (~(strict /\ fb[2] = 0) /\ fb[3] # 0 /\ fb[4] = 0)
                        => ErrorNumber = Some(103)
                  /\ (~strict /\ C26_FormatBytesPass(fb) /\ ret = "return") =>
                        /\ ErrorNumber \in {Some(0), Some(6)}
                        /\ fb[2] = 0 => obj._flags[1].GIF_UNITS_METERS
                        /\ fb[5] = 0 => obj._flags[1].GIF_LAT_ASCENDING
                        /\ fb[6] = 0 => obj._flags[1].GIF_LON_ASCENDING

\* C26 witnesses: a strict parse that failed with 104 on a zero
\* latitude-direction byte
C26_Witness ==
    /\ buf.fmt = "ggf" /\ buf.strict /\ ReachesFlagChecks(buf.b)
    /\ buf.b.flags[2] # 0 /\ buf.b.flags[5] = 0
    /\ ErrorNumber = Some(104)
    /\ obj._valid = Some(FALSE)

BYNParsed == ParseSucceeded /\ buf.fmt = "byn"

\* the on-disk 32-bit integer at index i (from 0) of the body
C27_OnDisk(i) == buf.b.body[i + 1]

\* C27: for 0 <= cell_x < columns and 0 <= cell_y < rows the value extracted
\* for the cell (cell_x, cell_y), cell_y counted from the south, is the
\* on-disk value at index (rows - 1 - cell_y) * columns + cell_x, disk row 0
\* being the northernmost row, and each stored value is the on-disk integer
\* divided by the header's scale factor.
C27_CellIsFlippedDiskIndex ==
    BYNParsed =>
        /\ \A i \in 1..Len(obj.geoid_values[1]) :
              obj.geoid_values[1][i] = RDiv(RInt(C27_OnDisk(i - 1)), buf.b.factor)
        /\ \A cell_x \in 0..(obj.columns[1] - 1), cell_y \in 0..(obj.rows[1] - 1) :
              BYN_extract_value(obj, cell_x, cell_y)
                = Some(RDiv(RInt(C27_OnDisk((obj.rows[1] - 1 - cell_y) * obj.columns[1]
                                            + cell_x)),
                            buf.b.factor))

\* C27 witness: a grid of at least two rows whose south-west cell was
\* extracted from the last disk row and differs from the north-west cell,
\* with a separation computed on it
C27_Witness ==
    /\ BYNParsed
    /\ obj.rows[1] >= 2 /\ obj.columns[1] >= 2
    /\ result # None
    /\ BYN_extract_value(obj, 0, 0)
          = Some(RDiv(RInt(C27_OnDisk((obj.rows[1] - 1) * obj.columns[1])), buf.b.factor))
    /\ BYN_extract_value(obj, 0, 0) # BYN_extract_value(obj, 0, obj.rows[1] - 1)

\* the query lies exactly on a grid node: x1 = y1 = 0
C29_OnNode ==
    /\ query # None /\ BYNParsed
    /\ BYN_frac(obj, query[1][1], query[1][2]) = <<RInt(0), RInt(0)>>

\* C29: when the query point coincides with a grid node whose row and
\* column are valid, compute_separation returns exactly that node's stored
\* value, whatever the eight neighbouring values are and whether or not they
\* are in bounds.  Refuted: at a node of the last column the eastern
\* neighbours pass the bounds test of C2 and the indexing can raise.
C29_NodeValueReturned ==
    (C29_OnNode /\ CellInGrid(QueryCell)) =>
        result = Some([ret |-> "return", value |-> Some(StoredValue(QueryCell))])

\* the cell and the fractions of the point px, py taken in the unit of the
\* grid's boundary fields
C22_Cell(px, py) ==
    <<RFloor(RDiv(px, RInt(obj.spacing_ew[1]))), RFloor(RDiv(py, RInt(obj.spacing_ns[1])))>>

C22_Frac(px, py) ==
    <<RSub(RDiv(px, RInt(obj.spacing_ew[1])), RInt(C22_Cell(px, py)[1])),
      RSub(RDiv(py, RInt(obj.spacing_ns[1])), RInt(C22_Cell(px, py)[2]))>>

\* the separation the grid gives at the shifted point px, py: the nine
\* neighbours of its cell combined by the interpolation terms of its
\* fractions, or the IndexError of an extraction
C22_SeparationAt(px, py) ==
    LET cells == BYN_neighbourhood(C22_Cell(px, py))
        ex == [i \in 1..9 |-> BYN_extract_value(obj, cells[i][1], cells[i][2])]
        x1 == C22_Frac(px, py)[1]
        y1 == C22_Frac(px, py)[2]
        A == << <<RMul(RMul(x1, x1), RMul(y1, y1)), RMul(RMul(x1, x1), y1),
                  RMul(x1, RMul(y1, y1)), RMul(x1, x1), RMul(y1, y1),
                  RMul(x1, y1), x1, y1, RInt(1)>> >>
    IN  IF \E i \in 1..9 : ex[i] = None
        THEN [ret |-> "IndexError", value |-> None]
        ELSE [ret |-> "return",
              value |-> Some(BYN_multiply(A, BYN_multiply(Ai, [i \in 1..9 |-> <<ex[i][1]>>]))[1][1])]

Computed == query # None /\ result # None

Finished(k) == calls[k].op = "compute_separation" /\ calls[k].result # None

Called == calls # <<>> /\ calls[1].op = "compute_separation"

\* C24: compute_separation leaves every field of the grid unchanged
\* (boundaries, spacing, rows, columns, values), and so calls on one shared
\* grid, interleaved in any order at any step, each return the value the
\* same call returns when it runs alone on the grid as it was loaded.
C24_InterleavedAsAlone ==
    Called =>
        /\ obj = Parse(buf).obj
        /\ \A k \in 1..Len(calls) :
              Finished(k) =>
                  calls[k].result[1]
                    = BYN_compute_separation(Parse(buf).obj,
                                             calls[k].query[1], calls[k].query[2])

\* C24 witness: two calls with different coordinates, the second begun
\* while the first was under way, both returned, with different values
C24_Witness ==
    /\ Len(calls) = 2
    /\ Finished(1) /\ Finished(2)
    /\ calls[2].concurrent
    /\ calls[1].query # calls[2].query
    /\ calls[1].result[1].ret = "return"
    /\ calls[2].result[1].ret = "return"
    /\ calls[1].result # calls[2].result
    /\ obj = Parse(buf).obj

\* the object was loaded a second time
LoadedAgain == calls # <<>> /\ calls[1].op = "load"

\* C25: a second load on the same parser object, of the same or of another
\* input, gives the grid that a single load of the last input gives on a
\* fresh object; the value sequence holds no value of the earlier load and
\* its length is rows * columns.  Refuted: the value lists are created in
\* __init__ only, and the second load appends to the values of the first.
C25_SecondLoadAsFresh ==
    LoadedAgain =>
        /\ [obj |-> obj, ret |-> ret] = Parse(buf)
        /\ ParseSucceeded => Len(Values(obj)) = Rows(obj)[1] * Columns(obj)[1]
====
